---------------------------- MODULE Spec2Model ----------------------------
(***************************************************************************)
(* A model of the nativestart launcher: the installation store (trash /    *)
(* restore protocol, orphan sweep), the validator pipeline, the download   *)
(* engine, the descriptor parser and the orchestrator JavaLauncher::run,   *)
(* with process kills between any two file-system operations.              *)
(*                                                                         *)
(* The file system below the installation root is a function from a finite *)
(* universe of paths (tuples of name components) to entries.  Every path   *)
(* of the universe has one fixed type (file or directory); descriptors of  *)
(* the universe never use a file path as a directory or the reverse.       *)
(***************************************************************************)
EXTENDS Naturals, Integers, Sequences, FiniteSets, TLC

VARIABLES
    fs,         \* the installation root: path -> entry
    pc,         \* position of the launcher worker (or of the harness of a pure function)
    run,        \* number of the current launcher process
    srv,        \* index of the descriptor the server publishes
    content,    \* descriptor_content of JavaLauncher::run (index of the bytes, 0 = unparsable)
    desc,       \* index of the parsed descriptor of this run (0 = none yet)
    ctx,        \* which caller the store operation in progress returns to
    cur,        \* the artifact (or reserved name) the store operation in progress works on
    todo,       \* artifacts still to be examined / downloaded in the current loop
    result,     \* the vector get_files_to_download is building
    toDelete,   \* entries_to_delete still to be removed by delete_unused_files
    locks,      \* paths on which this process holds a shared lock
    err,        \* error kind the run ended with ("none" while running)
    started,    \* start_jvm has been called in this run
    outcome,    \* how the installation came about ("Done": by a complete run) and how
                \* the earlier runs ended, oldest first
    srvGood,    \* in this run the server answered every request with the published bytes
                \* and the operating system granted every lock
    old,        \* rel path -> entry tree that path_for_write moved to the trash in this run
    completed,  \* rel paths whose transfer download_and_store has completed in this run
    restored,   \* rel paths on which restore_trash has returned in this run
    win,        \* what a kill interrupted: the path being written and what validated before
    pre,        \* the root as it was when delete_unused_files was entered in this run
    pin,        \* input of ApplicationDescriptor::parse under test
    pout,       \* its outcome
    begin,      \* the root as it was when this run of the launcher began, kept until
                \* parse has accepted the descriptor of the run
    cached,     \* the descriptor app.json held when this run began, when the root was
                \* an intact installation of it; 0 otherwise
    chan,       \* the mpsc channel of start_internal: messages sent and not yet received
    senders,    \* the threads that hold a Sender of the channel
    ui,         \* where the main thread is: "off" while it is not modelled
    dl,         \* a download_and_store batch seen from the progress counter: the declared
                \* sizes, the artifact at work, downloaded, file_progress and the counter
    walk,       \* the archive branch of the checksum validator: the directory tree, the
                \* entries WalkDir has still to yield, the BTreeMap and the digest
    closes      \* how often the main thread has closed the splash window

vars == <<fs, pc, run, srv, content, desc, ctx, cur, todo, result, toDelete, locks,
          err, started, outcome, srvGood, old, completed, restored, win, pre, pin, pout,
          begin, cached, chan, senders, ui, dl, walk, closes>>

-----------------------------------------------------------------------------
(* Bounds of the model *)

MaxRuns == 2        \* launcher processes started one after the other
MaxCrashes == 1     \* kills of a launcher process

-----------------------------------------------------------------------------
(* Names and paths *)

DESCRIPTOR_FILE_NAME == "app.json"
LOG_FILE_NAME == "launcher.log"
BACKUP_DIR == ".launcher.backup"

\* Path::starts_with: component-wise prefix
starts_with(q, p) == Len(p) <= Len(q) /\ SubSeq(q, 1, Len(p)) = p

Parent(p) == SubSeq(p, 1, Len(p) - 1)

\* InstallationManager::path: rel joined onto the root (the root is <<>>)
path(rel) == rel

\* InstallationManager::backup_path
backup_path(rel) == <<BACKUP_DIR>> \o rel

\* root_dir of the InstallationManager: the cache directory joined with the app id
root_dir == <<"/", "cache", "app">>

\* Path::is_absolute: the first component is the root of the file system
is_absolute(p) == Len(p) > 0 /\ p[1] = "/"

\* PathBuf::push: an absolute argument replaces the path, a relative one extends it
push(base, p) == IF is_absolute(p) THEN p ELSE base \o p

\* the location InstallationManager::path resolves to in the file system
resolved_path(rel) == push(root_dir, rel)

\* the location InstallationManager::backup_path resolves to in the file system
resolved_backup_path(rel) == push(push(root_dir, <<BACKUP_DIR>>), rel)

\* paths of the universe that have a mirror below .launcher.backup
MirrorNodes == { <<"app.json">>, <<"splash">>, <<"lib">>, <<"lib", "a.jar">>,
                 <<"jre">>, <<"jre", "f">> }

LiveNodes == MirrorNodes \cup { <<"launcher.log">>, <<"lib", "old.jar">>,
                 <<"plugins">>, <<"plugins", "x.so">>, <<"plugins", "a.jar">> }

Nodes == LiveNodes \cup { <<BACKUP_DIR>> } \cup { backup_path(n) : n \in MirrorNodes }

DirNodes == { n \in Nodes : \E m \in Nodes : m # n /\ starts_with(m, n) }

-----------------------------------------------------------------------------
(* File-system entries and operations (std::fs) *)

Absent == [kind |-> "absent", data |-> 0]
Dir == [kind |-> "dir", data |-> 0]
File(c) == [kind |-> "file", data |-> c]

EmptyRoot == [n \in Nodes |-> Absent]

\* Path::exists
Exists(f, p) == p = <<>> \/ (p \in Nodes /\ f[p].kind # "absent")

\* fs::remove_file / fs::remove_dir_all
RemoveAll(f, p) == [n \in Nodes |-> IF starts_with(n, p) THEN Absent ELSE f[n]]

\* fs::create_dir_all
CreateDirAll(f, p) == [n \in Nodes |-> IF starts_with(p, n) THEN Dir ELSE f[n]]

\* File::create followed by a complete write of c (c = 0: created, nothing written yet)
WriteFile(f, p, c) == [f EXCEPT ![p] = File(c)]

\* fs::rename of an entry with everything below it; `to` does not exist
Rename(f, from, to) ==
    [n \in Nodes |->
        IF starts_with(n, to)
        THEN LET src == from \o SubSeq(n, Len(to) + 1, Len(n))
             IN IF src \in Nodes THEN f[src] ELSE Absent
        ELSE IF starts_with(n, from) THEN Absent ELSE f[n]]

\* the entry at p with everything below it, by relative path
Tree(f, p) ==
    [s \in { SubSeq(n, Len(p) + 1, Len(n)) : n \in { m \in Nodes : starts_with(m, p) } }
        |-> f[p \o s]]

\* states a kill can leave while fs::remove_dir_all(p) is at work: children go first
TornRemove(f, p) ==
    LET under == { n \in Nodes : starts_with(n, p) /\ f[n].kind # "absent" }
        closed == { R \in SUBSET under :
                      \A n \in R : \A m \in under : starts_with(m, n) => m \in R }
    IN { [n \in Nodes |-> IF n \in R THEN Absent ELSE f[n]] : R \in closed }

-----------------------------------------------------------------------------
(* File contents.  A content is a number; 0 is the empty or truncated file. *)

\* v1, v2: two versions of an artifact; junk: other bytes; all three of the same length
Content == [empty |-> 0, v1 |-> 1, v2 |-> 2, junk |-> 3]
V1 == Content.v1
V2 == Content.v2
Junk == Content.junk
Contents == { Content.empty, V1, V2, Junk }

\* fs::metadata(..).len()
Size(c) == IF c = Content.empty THEN 0 ELSE 1

\* checksum.rs hash(): the digest of the bytes of one file (injective on Contents)
hash(c) == c

-----------------------------------------------------------------------------
(* Descriptors (descriptor.rs).  The bytes of a descriptor are its index    *)
(* in Descriptors; app.json holding data d holds the bytes of descriptor d, *)
(* and data 0 is a truncated file that does not deserialize.                *)

\* ApplicationArtifact; path is kept as components, archive = path.ends_with("/");
\* checksum is the set of (relative path, per-file hash) pairs the digest is taken over
FileArtifact(p, c) ==
    [path |-> p, archive |-> FALSE, size |-> Size(c), checksum |-> { <<<<>>, hash(c)>> }]

ArchiveArtifact(p, c) ==
    [path |-> p, archive |-> TRUE, size |-> Size(c), checksum |-> { <<<<"f">>, hash(c)>> }]

is_archive(a) == a.archive

Descriptors == <<
    \* 1: version 1 of the application
    [splash |-> FileArtifact(<<"splash">>, V1),
     artifacts |-> << FileArtifact(<<"lib", "a.jar">>, V1), ArchiveArtifact(<<"jre">>, V1) >>,
     unmanaged_paths |-> << <<"plugins">> >>],
    \* 2: new splash and new lib/a.jar, same runtime
    [splash |-> FileArtifact(<<"splash">>, V2),
     artifacts |-> << FileArtifact(<<"lib", "a.jar">>, V2), ArchiveArtifact(<<"jre">>, V1) >>,
     unmanaged_paths |-> << <<"plugins">> >>],
    \* 3: new runtime, lib/a.jar dropped, no unmanaged paths
    [splash |-> FileArtifact(<<"splash">>, V1),
     artifacts |-> << ArchiveArtifact(<<"jre">>, V2) >>,
     unmanaged_paths |-> << >>],
    \* 4: an artifact below an unmanaged path
    [splash |-> FileArtifact(<<"splash">>, V1),
     artifacts |-> << FileArtifact(<<"plugins", "a.jar">>, V1) >>,
     unmanaged_paths |-> << <<"plugins">> >>],
    \* 5: no artifacts
    [splash |-> FileArtifact(<<"splash">>, V1),
     artifacts |-> << >>,
     unmanaged_paths |-> << <<"plugins">>, <<"lib">> >>]
>>

\* what the descriptor URL of the orchestrator model serves: the bytes of one of
\* the first three descriptors, or (0) bytes that do not deserialize
Served == 0..3

\* ApplicationDescriptor::all_artifacts: artifacts, then the splash
all_artifacts(d) == Append(d.artifacts, d.splash)

Range(s) == { s[i] : i \in 1..Len(s) }

-----------------------------------------------------------------------------
(* Validator pipeline (validation/) *)

\* regular files at or below p (WalkDir)
FilesUnder(f, p) == { n \in Nodes : starts_with(n, p) /\ f[n].kind = "file" }

RECURSIVE SumSizes(_, _)
SumSizes(f, S) ==
    IF S = {} THEN 0
    ELSE LET n == CHOOSE x \in S : TRUE IN Size(f[n].data) + SumSizes(f, S \ {n})

\* ExistenceApplicationArtifactValidator::is_valid
ExistenceValid(f, a) == Exists(f, path(a.path))

\* SizeApplicationArtifactValidator::is_valid
SizeValid(f, a) ==
    IF is_archive(a)
    THEN SumSizes(f, FilesUnder(f, path(a.path))) = a.size
    ELSE (IF f[path(a.path)].kind = "file" THEN Size(f[path(a.path)].data) ELSE 0) = a.size

\* ChecksumApplicationArtifactValidator::is_valid
ChecksumValid(f, a) ==
    LET p == path(a.path)
        hashes == { << SubSeq(n, Len(p) + 1, Len(n)), hash(f[n].data) >> : n \in FilesUnder(f, p) }
    IN IF is_archive(a)
       THEN hashes = a.checksum
       ELSE f[p].kind = "file" /\ { << <<>>, hash(f[p].data) >> } = a.checksum

\* validate without the size validator: existence, then checksum
validate_SkipsSize(f, a) ==
    IF ~ExistenceValid(f, a) THEN FALSE
    ELSE ChecksumValid(f, a)

\* validation::validate: existence, then size, then checksum
validate(f, a) ==
    IF ~ExistenceValid(f, a) THEN FALSE
    ELSE IF ~SizeValid(f, a) THEN FALSE
    ELSE ChecksumValid(f, a)

\* the validators whose is_valid validate calls, in the order of the calls: each is
\* constructed and called only after the one before it has returned true
validators_called(f, a) ==
    IF ~ExistenceValid(f, a) THEN << "existence" >>
    ELSE IF ~SizeValid(f, a) THEN << "existence", "size" >>
    ELSE << "existence", "size", "checksum" >>

-----------------------------------------------------------------------------
(* Orphan sweep (installation_manager.rs) *)

\* the match loop of get_paths_to_delete over artifact_paths, from index i, for entry e
RECURSIVE Match(_, _, _)
Match(aps, i, e) ==
    IF i > Len(aps) THEN "none"
    ELSE IF aps[i] = e THEN "exact"
    ELSE IF starts_with(aps[i], e) THEN "partial"
    ELSE Match(aps, i + 1, e)

\* fs::read_dir: the entries directly below dir
ReadDir(f, dir) ==
    { n \in Nodes : Len(n) = Len(dir) + 1 /\ starts_with(n, dir) /\ f[n].kind # "absent" }

\* a get_paths_to_delete that does not descend into a partially matched directory
get_paths_to_delete_NoDescend(f, root, aps) ==
    { e \in ReadDir(f, root) : Match(aps, 1, e) = "none" }

\* InstallationManager::get_paths_to_delete (the order of the vector follows
\* read_dir and is not specified; the entries are kept as a set)
RECURSIVE get_paths_to_delete(_, _, _)
get_paths_to_delete(f, root, aps) ==
    UNION { LET m == Match(aps, 1, e)
            IN IF m = "none" THEN {e}
               ELSE IF m = "partial" THEN get_paths_to_delete(f, e, aps)
               ELSE {}
            : e \in ReadDir(f, root) }

\* an artifact_paths that also holds the reserved name .launcher.backup
artifact_paths_WithBackup(d) ==
    [i \in 1..Len(d.artifacts) |-> path(d.artifacts[i].path)]
        \o << path(<<DESCRIPTOR_FILE_NAME>>), path(<<LOG_FILE_NAME>>), path(<<BACKUP_DIR>>) >>
        \o << path(d.splash.path) >>
        \o [i \in 1..Len(d.unmanaged_paths) |-> path(d.unmanaged_paths[i])]

\* an artifact_paths without the synthetic entry for the log file
artifact_paths_NoLog(d) ==
    [i \in 1..Len(d.artifacts) |-> path(d.artifacts[i].path)]
        \o << path(<<DESCRIPTOR_FILE_NAME>>) >>
        \o << path(d.splash.path) >>
        \o [i \in 1..Len(d.unmanaged_paths) |-> path(d.unmanaged_paths[i])]

\* the vector artifact_paths built by delete_unused_files
artifact_paths(d) ==
    [i \in 1..Len(d.artifacts) |-> path(d.artifacts[i].path)]
        \o << path(<<DESCRIPTOR_FILE_NAME>>), path(<<LOG_FILE_NAME>>) >>
        \o << path(d.splash.path) >>
        \o [i \in 1..Len(d.unmanaged_paths) |-> path(d.unmanaged_paths[i])]

\* a removal loop that returns after the first entry it removes
RemoveEntries_FirstOnly(f, es) ==
    IF es = {} THEN f
    ELSE LET first == CHOOSE e \in es : TRUE
         IN [n \in Nodes |-> IF starts_with(n, first) THEN Absent ELSE f[n]]

\* the removal loop of delete_unused_files over a set of entries
RemoveEntries(f, es) ==
    [n \in Nodes |-> IF \E e \in es : starts_with(n, e) THEN Absent ELSE f[n]]

\* InstallationManager::delete_unused_files, start to end
delete_unused_files(f, d) ==
    RemoveEntries(f, get_paths_to_delete(f, <<>>, artifact_paths(d)))

-----------------------------------------------------------------------------
(* ApplicationDescriptor::parse (descriptor.rs).  An input gives what parse *)
(* looks at: whether the text deserializes, the artifact paths and the      *)
(* splash path, the signature field, the trust anchor, and the build.       *)

\* names of the universe that contain the substring ".."
DotDotNames == { "..", "a..jar" }

\* String::contains("..") on a path
ContainsDotDot(p) == \E i \in 1..Len(p) : p[i] \in DotDotNames

\* ApplicationDescriptor::verify; signature: "none", "nothex", "bad", "good"
verify(in) ==
    IF ~in.feature THEN "SignatureError"
    ELSE IF in.signature = "none" THEN "SignatureError"
    ELSE IF in.signature = "nothex" THEN "Panic"
    ELSE IF in.signature = "good" THEN "Ok"
    ELSE "SignatureError"

\* a parse without the branch for a signature that no trust anchor can check
parse_IgnoresSignatureWithoutKey(in) ==
    IF ~in.json THEN "InvalidJSON"
    ELSE IF \E i \in 1..Len(in.paths) : ContainsDotDot(in.paths[i]) THEN "Panic"
    ELSE IF in.key THEN verify(in)
    ELSE "Ok"

\* a parse that looks at the signature before it looks at the paths
parse_SignatureFirst(in) ==
    IF ~in.json THEN "InvalidJSON"
    ELSE IF in.key /\ verify(in) # "Ok" THEN verify(in)
    ELSE IF ~in.key /\ in.signature # "none" THEN "SignatureError"
    ELSE IF \E i \in 1..Len(in.paths) : ContainsDotDot(in.paths[i]) THEN "Panic"
    ELSE "Ok"

\* ApplicationDescriptor::parse: "Ok", an error kind, or "Panic"
parse(in) ==
    IF ~in.json THEN "InvalidJSON"
    ELSE IF \E i \in 1..Len(in.paths) : ContainsDotDot(in.paths[i]) THEN "Panic"
    ELSE IF in.key THEN verify(in)
    ELSE IF in.signature # "none" THEN "SignatureError"
    ELSE "Ok"

\* what parse looks at in the bytes with index c, as the orchestrator model serves
\* them: unsigned descriptors, and a launcher built without a trust anchor
ParseInput(c) ==
    [json |-> c # 0,
     paths |-> IF c = 0 THEN << >>
               ELSE [i \in 1..Len(all_artifacts(Descriptors[c])) |->
                        all_artifacts(Descriptors[c])[i].path],
     signature |-> "none", key |-> FALSE, feature |-> FALSE]

-----------------------------------------------------------------------------
(* The orchestrator JavaLauncher::run, one action per file-system           *)
(* operation, so that a kill can fall between any two of them.              *)

APP == <<DESCRIPTOR_FILE_NAME>>
LOG == <<LOG_FILE_NAME>>

\* a valid installation of descriptor 1, with an orphan and a user-managed file
InstalledV1 ==
    [n \in Nodes |->
        CASE n = APP -> File(1)
          [] n = LOG -> File(Content.empty)
          [] n \in { <<"splash">>, <<"lib", "a.jar">>, <<"jre", "f">>,
                     <<"lib", "old.jar">>, <<"plugins", "x.so">> } -> File(V1)
          [] n \in { <<"lib">>, <<"jre">>, <<"plugins">> } -> Dir
          [] OTHER -> Absent]

\* every artifact any descriptor of the universe declares
KnownArtifacts == UNION { Range(all_artifacts(Descriptors[i])) : i \in DOMAIN Descriptors }

\* the bytes the server publishes for artifact a
Published(a) == CHOOSE c \in Contents : \E pr \in a.checksum : pr[2] = hash(c)

\* the file an artifact's transfer writes: the file itself, or the file in the archive
Target(a) == IF is_archive(a) THEN path(a.path) \o <<"f">> ELSE path(a.path)

NoWin == [rel |-> << >>, ok |-> {}]
NoInput == [json |-> FALSE, paths |-> << >>, signature |-> "none", key |-> FALSE, feature |-> FALSE]
Terminal == { "Done", "Fatal", "Panicked", "Crashed" }
Crashes == Cardinality({ i \in DOMAIN outcome : outcome[i] = "Crashed" })

hist == <<outcome, srvGood, old, completed, restored, win>>
harness == <<pin, pout, chan, senders, ui, dl, walk, closes>>

\* MAX_DOWNLOAD_PROGRESS (ui/mod.rs:17)
MAX_DOWNLOAD_PROGRESS == 1000

\* UserInterface::NOT_INITIALIZED (ui/mod.rs:26)
NOT_INITIALIZED == MAX_DOWNLOAD_PROGRESS + 1

\* no batch is at work: the counter is as UserInterface::new and download_done leave it
NoDownload ==
    [sizes |-> << >>, i |-> 0, downloaded |-> 0, file |-> 0, counter |-> NOT_INITIALIZED]

\* no directory walk is at work
NoWalk == [tree |-> << >>, left |-> {}, hashes |-> << >>, digest |-> << >>]

\* the main thread and its channel are not part of the run
UiOff == chan = << >> /\ senders = {} /\ ui = "off" /\ closes = 0
loop == <<ctx, cur, todo, result>>

\* the descriptor a root holds an intact installation of: app.json holds it, nothing
\* is in the trash and every artifact of it validates; 0 when there is none
CachedAt(f) ==
    IF /\ f[path(APP)].kind = "file" /\ f[path(APP)].data \in DOMAIN Descriptors
       /\ ~Exists(f, <<BACKUP_DIR>>)
       /\ \A a \in Range(all_artifacts(Descriptors[f[path(APP)].data])) : validate(f, a)
    THEN f[path(APP)].data
    ELSE 0

Init ==
    /\ fs \in { InstalledV1, EmptyRoot }
    /\ outcome = << IF fs = InstalledV1 THEN "Done" ELSE "Fresh" >>
    /\ srv \in Served
    /\ pc = "Start" /\ run = 1 /\ content = 0 /\ desc = 0
    /\ ctx = "none" /\ cur = << >> /\ todo = << >> /\ result = << >>
    /\ toDelete = {} /\ locks = {} /\ err = "none" /\ started = FALSE
    /\ srvGood = TRUE /\ old = << >> /\ completed = {}
    /\ restored = {} /\ win = NoWin /\ pre = EmptyRoot /\ begin = fs /\ cached = CachedAt(fs)
    /\ pin = NoInput /\ pout = "none" /\ UiOff /\ dl = NoDownload /\ walk = NoWalk

\* run returns Err(kind): the worker reports it and the locks are dropped
Fatal(kind) == pc' = "Fatal" /\ err' = kind /\ locks' = {}

\* a panic unwinds the worker thread
Panic == pc' = "Panicked" /\ err' = "Panic" /\ locks' = {}

\* a get_log_file that creates the log at the descriptor's path
GetLogFile_AtDescriptorPath ==
    /\ pc = "Start"
    /\ fs' = WriteFile(fs, path(APP), Content.empty)
    /\ pc' = "Fetch"
    /\ UNCHANGED <<run, srv, content, desc, loop, toDelete, locks, err, started, hist, pre, harness, begin, cached>>

\* InstallationManager::get_log_file (java_launcher.rs:19)
GetLogFile ==
    /\ pc = "Start"
    /\ fs' = WriteFile(fs, path(LOG), Content.empty)
    /\ pc' = "Fetch"
    /\ UNCHANGED <<run, srv, content, desc, loop, toDelete, locks, err, started, hist, pre, harness, begin, cached>>

\* download_and_get returns Some: store_descriptor begins with path_for_write(app.json)
FetchOk ==
    /\ pc = "Fetch"
    /\ content' = srv
    /\ pc' = "Mt" /\ ctx' = "store" /\ cur' = APP
    /\ UNCHANGED <<fs, run, srv, desc, todo, result, toDelete, locks, err, started, hist, pre, harness, begin, cached>>

\* download_and_get returns None: get_descriptor begins with restore_trash(app.json)
FetchFail ==
    /\ pc = "Fetch"
    /\ srvGood' = FALSE
    /\ pc' = "Rt" /\ ctx' = "cache" /\ cur' = APP
    /\ UNCHANGED <<fs, run, srv, content, desc, todo, result, toDelete, locks, err, started,
                   outcome, old, completed, restored, win, pre, harness, begin, cached>>

\* a get_files_to_download that pushes every artifact
NeedsDownload_Always(f, a) == TRUE

\* a get_files_to_download that only looks whether the path exists
NeedsDownload_ExistenceOnly(f, a) == ~ExistenceValid(f, a)

\* get_files_to_download pushes the artifact when validate fails
NeedsDownload(f, a) == ~validate(f, a)

\* what follows restore_trash(cur), on the root f it leaves
AfterRestore(f) ==
    /\ fs' = f
    /\ restored' = restored \cup {cur}
    /\ IF ctx = "cache"
       THEN \* get_descriptor reads app.json; run then calls store_descriptor
            IF f[path(APP)].kind = "file"
            THEN /\ content' = f[path(APP)].data
                 /\ pc' = "Mt" /\ ctx' = "store"
                 /\ UNCHANGED <<cur, todo, result, err, locks>>
            ELSE /\ Fatal("DownloadError")
                 /\ UNCHANGED <<content, loop>>
       ELSE \* get_files_to_download validates the artifact
            /\ result' = IF NeedsDownload(f, Head(todo)) THEN Append(result, Head(todo)) ELSE result
            /\ todo' = Tail(todo)
            /\ pc' = "Check"
            /\ UNCHANGED <<content, ctx, cur, err, locks>>
    /\ UNCHANGED <<run, srv, desc, toDelete, started, outcome, srvGood, old, completed, win,
                   pre, harness, begin, cached>>

\* a restore_trash that leaves an existing live entry alone
HasTrash_OnlyIfNoLive(f, rel) == Exists(f, backup_path(rel)) /\ ~Exists(f, path(rel))

\* restore_trash acts when the trash entry exists (if backup_path.exists())
HasTrash(f, rel) == Exists(f, backup_path(rel))

\* restore_trash: the live entry is removed when a trash entry exists
RtRemoveLive ==
    /\ pc = "Rt"
    /\ HasTrash(fs, cur) /\ Exists(fs, path(cur))
    /\ fs' = RemoveAll(fs, path(cur))
    /\ UNCHANGED <<pc, run, srv, content, desc, loop, toDelete, locks, err, started, hist,
                   pre, harness, begin, cached>>

\* restore_trash: the trash entry is renamed to the live path
RtRename ==
    /\ pc = "Rt"
    /\ HasTrash(fs, cur) /\ ~Exists(fs, path(cur))
    /\ IF Exists(fs, Parent(path(cur)))
       THEN AfterRestore(Rename(fs, backup_path(cur), path(cur)))
       ELSE \* fs::rename fails and the caller unwraps
            /\ Panic
            /\ UNCHANGED <<fs, run, srv, content, desc, loop, toDelete, started, hist,
                           pre, harness, begin, cached>>

\* restore_trash: no trash entry
RtSkip ==
    /\ pc = "Rt"
    /\ ~HasTrash(fs, cur)
    /\ AfterRestore(fs)

\* the loop of get_files_to_download
CheckNext ==
    /\ pc = "Check" /\ todo # << >>
    /\ cur' = Head(todo).path /\ pc' = "Rt"
    /\ UNCHANGED <<fs, run, srv, content, desc, ctx, todo, result, toDelete, locks, err,
                   started, hist, pre, harness, begin, cached>>

\* get_files_to_download returns: download_and_store(result), or verify_installation
CheckDone ==
    /\ pc = "Check" /\ todo = << >>
    /\ IF ctx = "verify"
       THEN /\ IF result = << >>
               THEN pc' = "LaunchRuntime" /\ UNCHANGED <<err, locks>>
               ELSE Fatal("Msg")
            /\ UNCHANGED <<todo, result>>
       ELSE pc' = "Download" /\ todo' = result /\ result' = << >> /\ UNCHANGED <<err, locks>>
    /\ UNCHANGED <<fs, run, srv, content, desc, ctx, cur, toDelete, started, hist, pre, harness, begin, cached>>

\* the loop of download_and_store: path_for_write(artifact)
DownloadNext ==
    /\ pc = "Download" /\ todo # << >>
    /\ cur' = Head(todo).path /\ pc' = "Mt"
    /\ UNCHANGED <<fs, run, srv, content, desc, ctx, todo, result, toDelete, locks, err,
                   started, hist, pre, harness, begin, cached>>

\* download_and_store: download_done and Ok
DownloadDone ==
    /\ pc = "Download" /\ todo = << >>
    /\ pc' = IF ctx = "splash" THEN "ShowSplash" ELSE "Sweep"
    /\ UNCHANGED <<fs, run, srv, content, desc, loop, toDelete, locks, err, started, hist,
                   pre, harness, begin, cached>>

\* what follows move_to_trash(cur)
AfterMove ==
    /\ pc' = IF ctx = "store" THEN "StoreCreate" ELSE "DlCreate"
    /\ UNCHANGED <<run, srv, content, desc, loop, toDelete, locks, err, started, outcome,
                   srvGood, completed, restored, win, pre, harness, begin, cached>>

\* move_to_trash: a stale trash entry is removed first
MtRemoveStale ==
    /\ pc = "Mt"
    /\ Exists(fs, path(cur)) /\ Exists(fs, backup_path(cur))
    /\ fs' = RemoveAll(fs, backup_path(cur))
    /\ UNCHANGED <<pc, run, srv, content, desc, loop, toDelete, locks, err, started, hist,
                   pre, harness, begin, cached>>

\* move_to_trash: create_dir_all(backup_path.parent())
MtMkdir ==
    /\ pc = "Mt"
    /\ Exists(fs, path(cur)) /\ ~Exists(fs, backup_path(cur))
    /\ ~Exists(fs, Parent(backup_path(cur)))
    /\ fs' = CreateDirAll(fs, Parent(backup_path(cur)))
    /\ UNCHANGED <<pc, run, srv, content, desc, loop, toDelete, locks, err, started, hist,
                   pre, harness, begin, cached>>

\* move_to_trash: the live entry is renamed into the trash
MtRename ==
    /\ pc = "Mt"
    /\ Exists(fs, path(cur)) /\ ~Exists(fs, backup_path(cur))
    /\ Exists(fs, Parent(backup_path(cur)))
    /\ fs' = Rename(fs, path(cur), backup_path(cur))
    /\ old' = (cur :> [tree |-> Tree(fs, path(cur)),
                       ok |-> { a \in KnownArtifacts : a.path = cur /\ validate(fs, a) }]) @@ old
    /\ AfterMove

\* move_to_trash: nothing at the live path
MtSkip ==
    /\ pc = "Mt"
    /\ ~Exists(fs, path(cur))
    /\ AfterMove
    /\ UNCHANGED <<fs, old>>

\* store_descriptor: File::create
StoreCreate ==
    /\ pc = "StoreCreate"
    /\ fs' = WriteFile(fs, path(APP), Content.empty)
    /\ pc' = "StoreWrite"
    /\ UNCHANGED <<run, srv, content, desc, loop, toDelete, locks, err, started, hist, pre, harness, begin, cached>>

\* store_descriptor: write_all
StoreWrite ==
    /\ pc = "StoreWrite"
    /\ fs' = WriteFile(fs, path(APP), content)
    /\ pc' = "Parse"
    /\ UNCHANGED <<run, srv, content, desc, loop, toDelete, locks, err, started, hist, pre, harness, begin, cached>>

\* ApplicationDescriptor::parse, then get_files_to_download(&splash_desc)
ParseStep ==
    /\ pc = "Parse"
    /\ LET r == parse(ParseInput(content))
       IN IF r = "Ok"
          THEN /\ desc' = content
               /\ ctx' = "splash" /\ todo' = << Descriptors[content].splash >> /\ result' = << >>
               /\ pc' = "Check"
               /\ begin' = EmptyRoot
               /\ UNCHANGED <<cur, err, locks>>
          ELSE /\ IF r = "Panic" THEN Panic ELSE Fatal(r)
               /\ UNCHANGED <<desc, loop, begin>>
    /\ UNCHANGED <<fs, run, srv, content, toDelete, started, hist, pre, harness, cached>>

\* download_and_store, file artifact: create_dir_all(parent) when the parent is missing
DlMkdir ==
    /\ pc = "DlCreate"
    /\ ~is_archive(Head(todo)) /\ ~Exists(fs, Parent(path(cur)))
    /\ fs' = CreateDirAll(fs, Parent(path(cur)))
    /\ UNCHANGED <<pc, run, srv, content, desc, loop, toDelete, locks, err, started, hist,
                   pre, harness, begin, cached>>

\* download_and_store: create_dir_all(path) for an archive, File::create(path) for a file
DlCreate ==
    /\ pc = "DlCreate"
    /\ is_archive(Head(todo)) \/ Exists(fs, Parent(path(cur)))
    /\ fs' = IF is_archive(Head(todo)) THEN CreateDirAll(fs, path(cur))
             ELSE WriteFile(fs, path(cur), Content.empty)
    /\ pc' = "DlTransfer"
    /\ UNCHANGED <<run, srv, content, desc, loop, toDelete, locks, err, started, hist, pre, harness, begin, cached>>

\* the transfer of one artifact completes with the bytes b the server sent
TransferOk ==
    /\ pc = "DlTransfer"
    /\ \E b \in { Published(Head(todo)), Junk } :
        /\ fs' = WriteFile(fs, Target(Head(todo)), b)
        /\ srvGood' = (srvGood /\ b = Published(Head(todo)))
    /\ completed' = completed \cup {cur}
    /\ todo' = Tail(todo)
    /\ pc' = "Download"
    /\ UNCHANGED <<run, srv, content, desc, ctx, cur, result, toDelete, locks, err, started,
                   outcome, old, restored, win, pre, harness, begin, cached>>

\* the request, the copy or the unpacking fails: download_and_store returns the error
TransferFail ==
    /\ pc = "DlTransfer"
    /\ fs' \in IF is_archive(Head(todo))
               THEN { fs, WriteFile(fs, Target(Head(todo)), Content.empty) }
               ELSE { fs }
    /\ \E kind \in IF is_archive(Head(todo)) THEN { "DownloadError", "StorageError" }
                   ELSE { "DownloadError" } : Fatal(kind)
    /\ srvGood' = FALSE
    /\ UNCHANGED <<run, srv, content, desc, loop, toDelete, started, outcome, old, completed,
                   restored, win, pre, harness, begin, cached>>

\* a run that goes from the splash straight to the sweep
ShowSplash_ThenSweep ==
    /\ pc = "ShowSplash"
    /\ ctx' = "artifacts" /\ todo' = << >> /\ result' = << >>
    /\ pc' = "Sweep"
    /\ UNCHANGED <<fs, run, srv, content, desc, cur, toDelete, locks, err, started, hist,
                   pre, harness, begin, cached>>

\* ui.show_splash, then get_files_to_download(&descriptor.artifacts)
ShowSplash ==
    /\ pc = "ShowSplash"
    /\ ctx' = "artifacts" /\ todo' = Descriptors[desc].artifacts /\ result' = << >>
    /\ pc' = "Check"
    /\ UNCHANGED <<fs, run, srv, content, desc, cur, toDelete, locks, err, started, hist,
                   pre, harness, begin, cached>>

\* delete_unused_files: the entries to delete are collected
Sweep ==
    /\ pc = "Sweep"
    /\ toDelete' = get_paths_to_delete(fs, << >>, artifact_paths(Descriptors[desc]))
    /\ pre' = fs
    /\ pc' = "SweepDel"
    /\ UNCHANGED <<fs, run, srv, content, desc, loop, locks, err, started, hist, harness, begin, cached>>

\* a removal loop that passes over the trash directory
SweepDelete_KeepsTrash ==
    /\ pc = "SweepDel"
    /\ \E e \in toDelete :
        /\ fs' = IF Exists(fs, e) /\ e # << BACKUP_DIR >> THEN RemoveAll(fs, e) ELSE fs
        /\ toDelete' = toDelete \ {e}
    /\ UNCHANGED <<pc, run, srv, content, desc, loop, locks, err, started, hist, pre, harness, begin, cached>>

\* delete_unused_files: one entry is removed
SweepDelete ==
    /\ pc = "SweepDel"
    /\ \E e \in toDelete :
        /\ fs' = IF Exists(fs, e) THEN RemoveAll(fs, e) ELSE fs
        /\ toDelete' = toDelete \ {e}
    /\ UNCHANGED <<pc, run, srv, content, desc, loop, locks, err, started, hist, pre, harness, begin, cached>>

\* delete_unused_files returns Ok
SweepDone ==
    /\ pc = "SweepDel" /\ toDelete = {}
    /\ pc' = "Lock"
    /\ UNCHANGED <<fs, run, srv, content, desc, loop, toDelete, locks, err, started, hist,
                   pre, harness, begin, cached>>

\* a lock_installation that walks descriptor.artifacts only
LockPaths_ArtifactsOnly(f, d) ==
    UNION { IF is_archive(a) THEN FilesUnder(f, path(a.path)) ELSE { path(a.path) }
            : a \in Range(d.artifacts) }

\* the paths lock_installation opens
LockPaths(f, d) ==
    UNION { IF is_archive(a) THEN FilesUnder(f, path(a.path)) ELSE { path(a.path) }
            : a \in Range(all_artifacts(d)) }
        \cup { path(APP) }

\* verify_installation is get_files_to_download(&descriptor.artifacts).is_empty()
VerifyList(d) == d.artifacts

\* lock_installation (File::open(path).unwrap()), then verify_installation begins
Lock ==
    /\ pc = "Lock"
    /\ LET paths == LockPaths(fs, Descriptors[desc])
       IN \E granted \in BOOLEAN :
            /\ IF granted /\ \A p \in paths : Exists(fs, p)
               THEN /\ locks' = paths
                    /\ ctx' = "verify" /\ todo' = VerifyList(Descriptors[desc])
                    /\ result' = << >>
                    /\ pc' = "Check"
                    /\ UNCHANGED <<cur, err>>
               ELSE \* File::open or wait_lock fails and is unwrapped
                    /\ Panic
                    /\ ctx' = "lock"
                    /\ UNCHANGED <<cur, todo, result>>
            /\ srvGood' = (srvGood /\ granted)
    /\ UNCHANGED <<fs, run, srv, content, desc, toDelete, started, outcome, old, completed,
                   restored, win, pre, harness, begin, cached>>

\* JvmStarter::start_jvm is called
StartJvm ==
    /\ pc = "LaunchRuntime"
    /\ started' = TRUE
    /\ pc' = "Running"
    /\ UNCHANGED <<fs, run, srv, content, desc, loop, toDelete, locks, err, hist, pre, harness, begin, cached>>

\* the runtime's main returns and start_jvm returns Ok
MainReturns ==
    /\ pc = "Running"
    /\ pc' = "Unlock"
    /\ UNCHANGED <<fs, run, srv, content, desc, loop, toDelete, locks, err, started, hist,
                   pre, harness, begin, cached>>

\* unlock_files, and run returns Ok
Unlock ==
    /\ pc = "Unlock"
    /\ locks' = {}
    /\ pc' = "Done"
    /\ UNCHANGED <<fs, run, srv, content, desc, loop, toDelete, err, started, hist, pre, harness, begin, cached>>

\* the roots a kill can leave at the current position
Torn ==
    CASE pc = "Rt" /\ HasTrash(fs, cur) /\ Exists(fs, path(cur))
            -> TornRemove(fs, path(cur))
      [] pc = "Mt" /\ Exists(fs, path(cur)) /\ Exists(fs, backup_path(cur))
            -> TornRemove(fs, backup_path(cur))
      [] pc = "SweepDel" -> {fs} \cup UNION { TornRemove(fs, e) : e \in toDelete }
      [] pc = "DlTransfer" /\ is_archive(Head(todo))
            -> { fs, WriteFile(fs, Target(Head(todo)), Content.empty) }
      [] OTHER -> {fs}

\* the launcher process is killed
Crash ==
    /\ pc \notin Terminal
    /\ Crashes < MaxCrashes
    /\ fs' \in Torn
    /\ pc' = "Crashed" /\ locks' = {}
    /\ win' = IF pc \in { "DlCreate", "DlTransfer" }
              THEN [rel |-> cur, ok |-> IF cur \in DOMAIN old THEN old[cur].ok ELSE {}]
              ELSE NoWin
    /\ UNCHANGED <<run, srv, content, desc, loop, toDelete, err, started, outcome, srvGood,
                   old, completed, restored, pre, harness, begin, cached>>

\* the user starts the launcher again
NextRun ==
    /\ pc \in Terminal
    /\ run < MaxRuns
    /\ run' = run + 1
    /\ outcome' = Append(outcome, pc)
    /\ pc' = "Start" /\ content' = 0 /\ desc' = 0
    /\ ctx' = "none" /\ cur' = << >> /\ todo' = << >> /\ result' = << >>
    /\ toDelete' = {} /\ locks' = {} /\ err' = "none" /\ started' = FALSE
    /\ srvGood' = TRUE /\ old' = << >> /\ completed' = {} /\ restored' = {}
    /\ win' = IF pc = "Crashed" THEN win ELSE NoWin
    /\ pre' = EmptyRoot /\ begin' = fs /\ cached' = CachedAt(fs)
    /\ UNCHANGED <<fs, srv, harness>>

\* the steps of the worker thread: it runs on until it returns, panics or is killed
Step ==
    \/ GetLogFile \/ FetchOk \/ FetchFail
    \/ RtRemoveLive \/ RtRename \/ RtSkip
    \/ CheckNext \/ CheckDone \/ DownloadNext \/ DownloadDone
    \/ MtRemoveStale \/ MtMkdir \/ MtRename \/ MtSkip
    \/ StoreCreate \/ StoreWrite \/ ParseStep
    \/ DlMkdir \/ DlCreate \/ TransferOk \/ TransferFail
    \/ ShowSplash \/ Sweep \/ SweepDelete \/ SweepDone
    \/ Lock \/ StartJvm \/ MainReturns \/ Unlock

Next == Step \/ Crash \/ NextRun

Spec == Init /\ [][Next]_vars

\* the launcher process is never killed: its runs end by returning or panicking
NextUnkilled == Step \/ NextRun

SpecUnkilled == Init /\ [][NextUnkilled]_vars

\* the launcher is started on a root that holds an installation
InitInstalled == Init /\ fs = InstalledV1

FairSpec == InitInstalled /\ [][Next]_vars /\ WF_vars(Step)

-----------------------------------------------------------------------------
(* delete_unused_files on its own: any tree below the root, any descriptor  *)

SweepNodes == LiveNodes \cup { <<BACKUP_DIR>>, backup_path(APP), backup_path(<<"lib">>),
                               backup_path(<<"lib", "a.jar">>) }

InitSweep ==
    /\ fs = EmptyRoot
    /\ pc = "tree" /\ run = 1 /\ srv = 1 /\ content = 0 /\ desc = 0
    /\ ctx = "none" /\ cur = << >> /\ todo = << >> /\ result = << >>
    /\ toDelete = {} /\ locks = {} /\ err = "none" /\ started = FALSE
    /\ outcome = << >> /\ srvGood = TRUE /\ old = << >> /\ completed = {}
    /\ restored = {} /\ win = NoWin /\ pre = EmptyRoot /\ begin = fs /\ cached = CachedAt(fs)
    /\ pin = NoInput /\ pout = "none" /\ UiOff /\ dl = NoDownload /\ walk = NoWalk

\* a file or a directory appears below the root (an earlier run, the application, the user)
CreateEntry ==
    /\ pc = "tree"
    /\ \E n \in SweepNodes :
        /\ ~Exists(fs, n) /\ Exists(fs, Parent(n))
        /\ fs' = [fs EXCEPT ![n] = IF n \in DirNodes THEN Dir ELSE File(V1)]
    /\ UNCHANGED <<pc, run, srv, content, desc, loop, toDelete, locks, err, started, hist,
                   pre, harness, begin, cached>>

\* delete_unused_files(descriptor) runs to its end
SweepCall ==
    /\ pc = "tree"
    /\ \E d \in DOMAIN Descriptors :
        /\ desc' = d
        /\ fs' = delete_unused_files(fs, Descriptors[d])
    /\ pre' = fs
    /\ pc' = "swept"
    /\ UNCHANGED <<run, srv, content, loop, toDelete, locks, err, started, hist, harness, begin, cached>>

\* delete_unused_files(descriptor) is called again, directly after it returned Ok
SweepAgain ==
    /\ pc = "swept"
    /\ toDelete' = get_paths_to_delete(fs, << >>, artifact_paths(Descriptors[desc]))
    /\ fs' = delete_unused_files(fs, Descriptors[desc])
    /\ pc' = "swept twice"
    /\ UNCHANGED <<run, srv, content, desc, loop, locks, err, started, hist, pre, harness, begin, cached>>

NextSweep == CreateEntry \/ SweepCall \/ SweepAgain

SpecSweep == InitSweep /\ [][NextSweep]_vars

-----------------------------------------------------------------------------
(* ApplicationDescriptor::parse on its own *)

PathLists == {
    << <<"lib", "a.jar">>, <<"splash">> >>,
    << <<"..", "evil">>, <<"splash">> >>,
    << <<"lib", "a.jar">>, <<"..", "splash">> >>,
    << <<"lib", "a..jar">>, <<"splash">> >>,
    << <<"/", "etc", "app.conf">>, <<"splash">> >>,
    << <<"splash">> >> }

ParseInputs ==
    [json : BOOLEAN, paths : PathLists, signature : { "none", "nothex", "bad", "good" },
     key : BOOLEAN, feature : BOOLEAN]

InitParse ==
    /\ pin \in ParseInputs
    /\ pout = "none" /\ UiOff /\ dl = NoDownload /\ walk = NoWalk
    /\ fs = EmptyRoot
    /\ pc = "parse" /\ run = 1 /\ srv = 1 /\ content = 0 /\ desc = 0
    /\ ctx = "none" /\ cur = << >> /\ todo = << >> /\ result = << >>
    /\ toDelete = {} /\ locks = {} /\ err = "none" /\ started = FALSE
    /\ outcome = << >> /\ srvGood = TRUE /\ old = << >> /\ completed = {}
    /\ restored = {} /\ win = NoWin /\ pre = EmptyRoot /\ begin = fs /\ cached = CachedAt(fs)

\* parse(content, public_key) is called and returns, or panics
ParseCall ==
    /\ pc = "parse"
    /\ pout' = parse(pin)
    /\ pc' = "parsed"
    /\ UNCHANGED <<fs, run, srv, content, desc, loop, toDelete, locks, err, started, hist,
                   pre, pin, begin, cached, chan, senders, ui, dl, walk, closes>>

NextParse == ParseCall

SpecParse == InitParse /\ [][NextParse]_vars

-----------------------------------------------------------------------------
(* The store operations on their own, each call running to its end: the     *)
(* descriptor snapshot and the reconcile, on roots an earlier run can leave *)
(* (rename and create succeed on these roots; the server is reachable and   *)
(* delivers the published bytes).                                           *)

\* a move_to_trash that copies the live entry into the trash and leaves it in place
move_to_trash_Copies(f, rel) ==
    IF Exists(f, path(rel))
    THEN LET f1 == IF Exists(f, backup_path(rel)) THEN RemoveAll(f, backup_path(rel)) ELSE f
             f2 == CreateDirAll(f1, Parent(backup_path(rel)))
             g == Rename(f2, path(rel), backup_path(rel))
         IN [n \in Nodes |-> IF starts_with(n, path(rel)) THEN f[n] ELSE g[n]]
    ELSE f

\* a move_to_trash that keeps a stale trash entry and drops the live entry instead
move_to_trash_KeepsStale(f, rel) ==
    IF Exists(f, path(rel))
    THEN IF Exists(f, backup_path(rel))
         THEN RemoveAll(f, path(rel))
         ELSE Rename(CreateDirAll(f, Parent(backup_path(rel))), path(rel), backup_path(rel))
    ELSE f

\* InstallationManager::move_to_trash: the root it leaves
move_to_trash(f, rel) ==
    IF Exists(f, path(rel))
    THEN LET f1 == IF Exists(f, backup_path(rel)) THEN RemoveAll(f, backup_path(rel)) ELSE f
             f2 == CreateDirAll(f1, Parent(backup_path(rel)))
         IN Rename(f2, path(rel), backup_path(rel))
    ELSE f

\* a restore_trash that leaves an existing live entry in place
restore_trash_LiveWins(f, rel) ==
    IF HasTrash(f, rel) /\ ~Exists(f, path(rel))
    THEN Rename(f, backup_path(rel), path(rel))
    ELSE f

\* whether InstallationManager::restore_trash returns Ok: fs::rename fails when the
\* directory the live path lies in is missing
restore_trash_ok(f, rel) == HasTrash(f, rel) => Exists(f, Parent(path(rel)))

\* InstallationManager::restore_trash: the root it leaves
restore_trash(f, rel) ==
    IF HasTrash(f, rel)
    THEN LET f1 == IF Exists(f, path(rel)) THEN RemoveAll(f, path(rel)) ELSE f
         IN IF Exists(f, Parent(path(rel)))
            THEN Rename(f1, backup_path(rel), path(rel))
            ELSE f1
    ELSE f

\* InstallationManager::path_for_write: the root it leaves (it returns path(rel))
path_for_write(f, rel) == move_to_trash(f, rel)

\* InstallationManager::store_descriptor
store_descriptor(f, b) == WriteFile(path_for_write(f, APP), path(APP), b)

\* InstallationManager::get_descriptor: the root it leaves and the Option it returns
\* (a sequence: empty for None, the bytes for Some)
get_descriptor(f) ==
    LET g == restore_trash(f, APP)
    IN [fs |-> g,
        content |-> IF g[path(APP)].kind = "file" THEN << g[path(APP)].data >> ELSE << >>]

\* InstallationManager::get_files_to_download from the i-th artifact on: the root it
\* leaves and the vector it returns
RECURSIVE get_files_to_download(_, _, _, _)
get_files_to_download(f, artifacts, i, acc) ==
    IF i > Len(artifacts) THEN [fs |-> f, result |-> acc]
    ELSE LET g == restore_trash(f, artifacts[i].path)
         IN get_files_to_download(g, artifacts, i + 1,
                IF NeedsDownload(g, artifacts[i]) THEN Append(acc, artifacts[i]) ELSE acc)

\* DownloadManager::download_and_store from the i-th artifact on: the root it leaves
RECURSIVE download_and_store(_, _, _)
download_and_store(f, artifacts, i) ==
    IF i > Len(artifacts) THEN f
    ELSE LET a == artifacts[i]
             f1 == path_for_write(f, a.path)
             f2 == IF is_archive(a) THEN CreateDirAll(f1, path(a.path))
                   ELSE CreateDirAll(f1, Parent(path(a.path)))
         IN download_and_store(WriteFile(f2, Target(a), Published(a)), artifacts, i + 1)

\* the reconcile of JavaLauncher::run: the splash, then the artifacts; the root it
\* leaves and everything it downloaded
reconcile(f, d) ==
    LET s1 == get_files_to_download(f, << d.splash >>, 1, << >>)
        f1 == download_and_store(s1.fs, s1.result, 1)
        s2 == get_files_to_download(f1, d.artifacts, 1, << >>)
        f2 == download_and_store(s2.fs, s2.result, 1)
    IN [fs |-> f2, result |-> s1.result \o s2.result]

\* roots an earlier run can leave: nothing or an installation, with any descriptor
\* snapshot, and with or without a snapshot in the trash
StoreRoots ==
    { [[base EXCEPT ![APP] = live] EXCEPT ![<<BACKUP_DIR>>] = IF trash = Absent THEN base[<<BACKUP_DIR>>] ELSE Dir,
                                          ![backup_path(APP)] = trash] :
        base \in { EmptyRoot, InstalledV1 },
        live \in { Absent } \cup { File(b) : b \in Served },
        trash \in { Absent, File(1) } }

InitStore ==
    /\ fs \in StoreRoots
    /\ pc = "idle" /\ run = 1 /\ srv = 1 /\ content = 0 /\ desc = 0
    /\ ctx = "none" /\ cur = << >> /\ todo = << >> /\ result = << >>
    /\ toDelete = {} /\ locks = {} /\ err = "none" /\ started = FALSE
    /\ outcome = << >> /\ srvGood = TRUE /\ old = << >> /\ completed = {}
    /\ restored = {} /\ win = NoWin /\ pre = EmptyRoot /\ begin = fs /\ cached = CachedAt(fs)
    /\ pin = NoInput /\ pout = "none" /\ UiOff /\ dl = NoDownload /\ walk = NoWalk

\* store_descriptor(b)
StoreCall ==
    /\ pc = "idle"
    /\ \E b \in Served :
        /\ fs' = store_descriptor(fs, b)
        /\ content' = b
    /\ pc' = "stored"
    /\ UNCHANGED <<run, srv, desc, loop, toDelete, locks, err, started, hist, pre, harness, begin, cached>>

\* get_descriptor() directly after store_descriptor
GetCall ==
    /\ pc = "stored"
    /\ fs' = get_descriptor(fs).fs
    /\ result' = get_descriptor(fs).content
    /\ pc' = "loaded"
    /\ UNCHANGED <<run, srv, content, desc, ctx, cur, todo, toDelete, locks, err, started, hist,
                   pre, harness, begin, cached>>

\* the reconcile against a descriptor, and a second time against the same descriptor
ReconcileCall ==
    /\ pc \in { "idle", "once" }
    /\ \E d \in Served \ { 0 } :
        /\ pc = "once" => d = desc
        /\ desc' = d
        /\ fs' = reconcile(fs, Descriptors[d]).fs
        /\ result' = reconcile(fs, Descriptors[d]).result
    /\ pre' = fs
    /\ pc' = IF pc = "idle" THEN "once" ELSE "twice"
    /\ UNCHANGED <<run, srv, content, ctx, cur, todo, toDelete, locks, err, started, hist,
                   harness, begin, cached>>

NextStore == StoreCall \/ GetCall \/ ReconcileCall

SpecStore == InitStore /\ [][NextStore]_vars

-----------------------------------------------------------------------------
(* path_for_write and restore_trash called on their own (as the tests of      *)
(* installation_manager.rs do), on roots with and without a live entry and    *)
(* with and without a stale trash entry                                       *)

\* the rel paths the calls are made with: the snapshot, a file, a file in a
\* directory, an archive directory
TrashRels == { APP, << "splash" >>, << "lib", "a.jar" >>, << "jre" >> }

\* the root f with an entry of content c for rel in the trash: a file, or for the
\* archive directory a directory with its file
WithTrash(f, rel, c) ==
    LET g == CreateDirAll(f, Parent(backup_path(rel)))
    IN IF rel = << "jre" >>
       THEN WriteFile(CreateDirAll(g, backup_path(rel)), backup_path(rel) \o << "f" >>, c)
       ELSE WriteFile(g, backup_path(rel), c)

\* the same for the live entry
WithLive(f, rel, c) ==
    LET g == CreateDirAll(f, Parent(path(rel)))
    IN IF rel = << "jre" >>
       THEN WriteFile(CreateDirAll(g, path(rel)), path(rel) \o << "f" >>, c)
       ELSE WriteFile(g, path(rel), c)

\* roots for the calls on rel: nothing or an installation, the live entry as it is,
\* replaced or removed, and no trash entry, an empty trash directory or a stale entry
TrashRoots(rel) ==
    LET lives == UNION { { base, RemoveAll(base, path(rel)), WithLive(base, rel, V2) }
                         : base \in { EmptyRoot, InstalledV1 } }
    IN UNION { { g, CreateDirAll(g, Parent(backup_path(rel))),
                 WithTrash(g, rel, V1), WithTrash(g, rel, Junk) } : g \in lives }

InitTrash ==
    /\ \E rel \in TrashRels : cur = rel /\ fs \in TrashRoots(rel)
    /\ pc = "idle" /\ run = 1 /\ srv = 1 /\ content = 0 /\ desc = 0
    /\ ctx = "none" /\ todo = << >> /\ result = << >>
    /\ toDelete = {} /\ locks = {} /\ err = "none" /\ started = FALSE
    /\ outcome = << >> /\ srvGood = TRUE /\ old = << >> /\ completed = {}
    /\ restored = {} /\ win = NoWin /\ pre = fs /\ begin = fs /\ cached = 0
    /\ pin = NoInput /\ pout = "none" /\ UiOff /\ dl = NoDownload /\ walk = NoWalk

\* path_for_write(cur)
PathForWriteCall ==
    /\ pc = "idle"
    /\ fs' = path_for_write(fs, cur)
    /\ pc' = "moved"
    /\ UNCHANGED <<run, srv, content, desc, loop, toDelete, locks, err, started, hist, pre,
                   harness, begin, cached>>

\* restore_trash(cur), on the root as it is or after path_for_write(cur)
RestoreCall ==
    /\ pc \in { "idle", "moved" }
    /\ fs' = restore_trash(fs, cur)
    /\ err' = IF restore_trash_ok(fs, cur) THEN "none" ELSE "Io"
    /\ pc' = IF pc = "idle" THEN "restored" ELSE "moved and restored"
    /\ UNCHANGED <<run, srv, content, desc, loop, toDelete, locks, started, hist, pre,
                   harness, begin, cached>>

\* get_descriptor()
GetDescriptorCall ==
    /\ pc = "idle" /\ cur = APP
    /\ fs' = get_descriptor(fs).fs
    /\ result' = get_descriptor(fs).content
    /\ pc' = "got"
    /\ UNCHANGED <<run, srv, content, desc, ctx, cur, todo, toDelete, locks, err, started, hist,
                   pre, harness, begin, cached>>

NextTrash == PathForWriteCall \/ RestoreCall \/ GetDescriptorCall

SpecTrash == InitTrash /\ [][NextTrash]_vars

-----------------------------------------------------------------------------
(* validate called on its own (as the tests of validation/ do): one artifact  *)
(* record and a root where its path is absent, an empty directory, or holds   *)
(* some content                                                               *)

\* the largest size an artifact record declares
MaxSize == 2

\* artifact records: a file or an archive directory, any declared size, and the
\* digest of some content (for the archive also the digest of an empty directory)
ValidatedArtifacts ==
    { [path |-> << "splash" >>, archive |-> FALSE, size |-> n,
       checksum |-> { << << >>, hash(c) >> }] : n \in 0..MaxSize, c \in Contents }
    \cup
    { [path |-> << "jre" >>, archive |-> TRUE, size |-> n, checksum |-> k]
        : n \in 0..MaxSize,
          k \in { {} } \cup { { << << "f" >>, hash(c) >> } : c \in Contents } }

\* roots for validate on rel: nothing there, an empty directory, or an entry of
\* some content, in an empty root or an installation
ValidatedRoots(rel) ==
    UNION { { RemoveAll(base, path(rel)), CreateDirAll(RemoveAll(base, path(rel)), path(rel)) }
            \cup { WithLive(RemoveAll(base, path(rel)), rel, c) : c \in Contents }
            : base \in { EmptyRoot, InstalledV1 } }

InitValidate ==
    /\ \E a \in ValidatedArtifacts :
          todo = << a >> /\ cur = a.path /\ fs \in ValidatedRoots(a.path)
    /\ pc = "idle" /\ run = 1 /\ srv = 1 /\ content = 0 /\ desc = 0
    /\ ctx = "none" /\ result = << >>
    /\ toDelete = {} /\ locks = {} /\ err = "none" /\ started = FALSE
    /\ outcome = << >> /\ srvGood = TRUE /\ old = << >> /\ completed = {}
    /\ restored = {} /\ win = NoWin /\ pre = fs /\ begin = fs /\ cached = 0
    /\ pin = NoInput /\ pout = "none" /\ UiOff /\ dl = NoDownload /\ walk = NoWalk

\* validate(todo[1], path(todo[1].path)): result holds what it returned, outcome the
\* validators it called
ValidateCall ==
    /\ pc = "idle"
    /\ result' = << validate(fs, todo[1]) >>
    /\ outcome' = validators_called(fs, todo[1])
    /\ pc' = "validated"
    /\ UNCHANGED <<fs, run, srv, content, desc, ctx, cur, todo, toDelete, locks, err, started,
                   srvGood, old, completed, restored, win, pre, harness, begin, cached>>

NextValidate == ValidateCall

SpecValidate == InitValidate /\ [][NextValidate]_vars

-----------------------------------------------------------------------------
(* ApplicationDescriptor::verify on the text of a descriptor (descriptor.rs, *)
(* built with check-signature): the raw text, the signature field, and the   *)
(* message the signature was made over                                       *)

\* the longest descriptor text
MaxText == 4

\* the characters of a descriptor text: a hex digit and a character that is none
TextChars == { "a", "x" }

RECURSIVE TextsOf(_)
TextsOf(n) ==
    IF n = 0 THEN { << >> }
    ELSE TextsOf(n - 1) \cup { Append(t, ch) : t \in { u \in TextsOf(n - 1) : Len(u) = n - 1 },
                                             ch \in TextChars }

Texts == TextsOf(MaxText)

\* the signature field: a hex string
Signatures == { << "a" >>, << "a", "a" >> }

\* pat occurs in s at index i
MatchAt(s, pat, i) == i + Len(pat) - 1 <= Len(s) /\ SubSeq(s, i, i + Len(pat) - 1) = pat

\* str::replace(pat, "") from index i on: every match, found from left to right
\* and not overlapping an earlier one, is left out
RECURSIVE replace(_, _, _)
replace(s, pat, i) ==
    IF i > Len(s) THEN << >>
    ELSE IF MatchAt(s, pat, i) THEN replace(s, pat, i + Len(pat))
    ELSE << s[i] >> \o replace(s, pat, i + 1)

\* normalized_content of verify
normalized_content(text, signature) == replace(text, signature, 1)

\* key.verify(normalized_content, sig_bytes): the signature is the one made over signed
signature_check(text, signature, signed) ==
    IF normalized_content(text, signature) = signed THEN "Ok" ELSE "SignatureError"

InitVerify ==
    /\ pin \in [text : Texts, signature : Signatures, signed : Texts]
    /\ pout = "none" /\ UiOff /\ dl = NoDownload /\ walk = NoWalk
    /\ fs = EmptyRoot
    /\ pc = "idle" /\ run = 1 /\ srv = 1 /\ content = 0 /\ desc = 0
    /\ ctx = "none" /\ cur = << >> /\ todo = << >> /\ result = << >>
    /\ toDelete = {} /\ locks = {} /\ err = "none" /\ started = FALSE
    /\ outcome = << >> /\ srvGood = TRUE /\ old = << >> /\ completed = {}
    /\ restored = {} /\ win = NoWin /\ pre = EmptyRoot /\ begin = fs /\ cached = 0

\* verify(content, Some(signature), public_key): result holds the text the
\* signature was checked against
VerifyCall ==
    /\ pc = "idle"
    /\ result' = normalized_content(pin.text, pin.signature)
    /\ pout' = signature_check(pin.text, pin.signature, pin.signed)
    /\ pc' = "verified"
    /\ UNCHANGED <<fs, run, srv, content, desc, ctx, cur, todo, toDelete, locks, err, started,
                   hist, pre, pin, chan, senders, ui, dl, walk, closes, begin, cached>>

NextVerify == VerifyCall

SpecVerify == InitVerify /\ [][NextVerify]_vars

-----------------------------------------------------------------------------
(* A second launcher instance on the same installation root *)

\* move_to_trash whose fs::rename the operating system refuses: the stale trash
\* entry is removed and the trash directory created, the live entry stays
move_to_trash_refused(f, rel) ==
    IF Exists(f, path(rel))
    THEN LET f1 == IF Exists(f, backup_path(rel)) THEN RemoveAll(f, backup_path(rel)) ELSE f
         IN CreateDirAll(f1, Parent(backup_path(rel)))
    ELSE f

\* the rel paths another instance hands to path_for_write: app.json in
\* store_descriptor, an artifact path in download_and_store
OtherWrites == { APP } \cup { a.path : a \in KnownArtifacts }

\* path_for_write(rel) of another launcher process while this one runs the runtime.
\* move_to_trash never looks at a lock, and the shared flock this instance holds is
\* advisory: whether fs::rename of a locked file is refused is up to the operating
\* system (flock(2) does not refuse it).
OtherPathForWrite ==
    /\ pc = "Running"
    /\ \E rel \in OtherWrites : \E refused \in BOOLEAN :
         fs' = IF refused /\ (\E p \in locks : starts_with(p, path(rel)))
               THEN move_to_trash_refused(fs, rel)
               ELSE path_for_write(fs, rel)
    /\ UNCHANGED <<pc, run, srv, content, desc, loop, toDelete, locks, err, started, hist,
                   pre, harness, begin, cached>>

NextTwo == Next \/ OtherPathForWrite

SpecTwo == InitInstalled /\ [][NextTwo]_vars

-----------------------------------------------------------------------------
(* The main thread and the launcher worker (lib.rs, ui/mod.rs, ui/splash.rs). *)
(* Of the worker only what the main thread can see is kept: the messages it   *)
(* sends, and whether it returns Ok, returns Err or panics.                   *)

\* where run can return Err: up to parse (new, get_log_file, the descriptor, store,
\* parse), download_and_store, delete_unused_files, the bail! of the verification,
\* start_jvm before main is entered
WorkerErrs == { "Prepare", "SplashDownload", "Download", "Sweep", "Verify", "StartJvm" }

\* where run can panic: the unwrap of restore_trash in get_descriptor and
\* get_files_to_download, panic! and unwrap in parse, the unwraps of lock_installation,
\* the expect of start_jvm
WorkerPanics == { "Prepare", "SplashFiles", "Files", "Lock", "Verify", "StartJvm" }

\* the process has not exited
Alive == ui \notin { "exit 0", "exit 1" }

InitUi ==
    /\ fs = EmptyRoot /\ srv = 1
    /\ pc = "Prepare" /\ run = 1 /\ content = 0 /\ desc = 0
    /\ ctx = "none" /\ cur = << >> /\ todo = << >> /\ result = << >>
    /\ toDelete = {} /\ locks = {} /\ err = "none" /\ started = FALSE
    /\ outcome = << >> /\ srvGood = TRUE /\ old = << >> /\ completed = {}
    /\ restored = {} /\ win = NoWin /\ pre = EmptyRoot /\ begin = fs /\ cached = 0
    /\ pin = NoInput /\ pout = "none"
    /\ chan = << >> /\ senders = { "worker" } /\ ui = "await_splash" /\ dl = NoDownload /\ walk = NoWalk
    /\ closes = 0

\* a step of run that sends nothing
WorkerStep ==
    /\ Alive
    /\ pc \in { "Prepare", "SplashFiles", "Files", "Sweep", "Lock", "Verify" }
    /\ pc' = CASE pc = "Prepare" -> "SplashFiles"
               [] pc = "SplashFiles" -> "SplashDownload"
               [] pc = "Files" -> "Download"
               [] pc = "Sweep" -> "Lock"
               [] pc = "Lock" -> "Verify"
               [] pc = "Verify" -> "StartJvm"
    /\ UNCHANGED <<fs, run, srv, content, desc, loop, toDelete, locks, err, started, hist,
                   pre, pin, pout, dl, begin, cached, chan, senders, ui, walk, closes>>

\* download_and_store returns Ok: the first set_download_progress of the batch, if
\* there was one, sent Downloading; download_done sends FilesReady
WorkerDownload ==
    /\ Alive
    /\ pc \in { "SplashDownload", "Download" }
    /\ \E any \in BOOLEAN :
         chan' = chan \o (IF any THEN << "Downloading" >> ELSE << >>) \o << "FilesReady" >>
    /\ pc' = IF pc = "SplashDownload" THEN "ShowSplash" ELSE "Sweep"
    /\ UNCHANGED <<fs, run, srv, content, desc, loop, toDelete, locks, err, started, hist,
                   pre, pin, pout, dl, begin, cached, senders, ui, walk, closes>>

\* a show_splash that is called before the download_done of the splash batch
WorkerShowSplash_BeforeDone ==
    /\ Alive
    /\ pc = "ShowSplash"
    /\ chan # << >> /\ chan[Len(chan)] = "FilesReady"
    /\ chan' = SubSeq(chan, 1, Len(chan) - 1) \o << "SplashReady", "FilesReady" >>
    /\ pc' = "Files"
    /\ UNCHANGED <<fs, run, srv, content, desc, loop, toDelete, locks, err, started, hist,
                   pre, pin, pout, dl, begin, cached, senders, ui, walk, closes>>

\* ui.show_splash sends SplashReady
WorkerShowSplash ==
    /\ Alive
    /\ pc = "ShowSplash"
    /\ chan' = Append(chan, "SplashReady")
    /\ pc' = "Files"
    /\ UNCHANGED <<fs, run, srv, content, desc, loop, toDelete, locks, err, started, hist,
                   pre, pin, pout, dl, begin, cached, senders, ui, walk, closes>>

\* start_jvm creates the runtime, spawns the await-UI thread with a clone of the
\* UserInterface and calls main
WorkerStartJvm ==
    /\ Alive
    /\ pc = "StartJvm"
    /\ senders' = senders \cup { "probe" }
    /\ started' = TRUE
    /\ pc' = "Main"
    /\ UNCHANGED <<fs, run, srv, content, desc, loop, toDelete, locks, err, hist,
                   pre, pin, pout, dl, begin, cached, chan, ui, walk, closes>>

\* the await-UI thread: application_visible, then the thread ends
ProbeVisible ==
    /\ Alive
    /\ "probe" \in senders
    /\ chan' = Append(chan, "ApplicationUiVisible")
    /\ senders' = senders \ { "probe" }
    /\ UNCHANGED <<fs, pc, run, srv, content, desc, loop, toDelete, locks, err, started, hist,
                   pre, pin, pout, dl, begin, cached, ui, walk, closes>>

\* main returns: application_terminated, start_jvm returns Ok
WorkerMainReturns ==
    /\ Alive
    /\ pc = "Main"
    /\ chan' = Append(chan, "ApplicationTerminated")
    /\ pc' = "Unlock"
    /\ UNCHANGED <<fs, run, srv, content, desc, loop, toDelete, locks, err, started, hist,
                   pre, pin, pout, dl, begin, cached, senders, ui, walk, closes>>

\* unlock_files, run returns Ok and the worker thread ends
WorkerOk ==
    /\ Alive
    /\ pc = "Unlock"
    /\ pc' = "Done"
    /\ senders' = senders \ { "worker" }
    /\ UNCHANGED <<fs, run, srv, content, desc, loop, toDelete, locks, err, started, hist,
                   pre, pin, pout, dl, begin, cached, chan, ui, walk, closes>>

\* run returns Err: the worker sends Error (ui.terminate) and its thread ends; a
\* download_and_store that fails may have sent Downloading before
WorkerErr ==
    /\ Alive
    /\ pc \in WorkerErrs
    /\ \E any \in BOOLEAN :
         /\ any => pc \in { "SplashDownload", "Download" }
         /\ chan' = chan \o (IF any THEN << "Downloading" >> ELSE << >>) \o << "Error" >>
    /\ pc' = "Fatal" /\ err' = "Err"
    /\ senders' = senders \ { "worker" }
    /\ UNCHANGED <<fs, run, srv, content, desc, loop, toDelete, locks, started, hist,
                   pre, pin, pout, dl, begin, cached, ui, walk, closes>>

\* the worker panics: its thread unwinds and drops its Sender, nothing is sent
WorkerPanic ==
    /\ Alive
    /\ pc \in WorkerPanics
    /\ pc' = "Panicked" /\ err' = "Panic"
    /\ senders' = senders \ { "worker" }
    /\ UNCHANGED <<fs, run, srv, content, desc, loop, toDelete, locks, started, hist,
                   pre, pin, pout, dl, begin, cached, chan, ui, walk, closes>>

\* what the main thread does when recv finds the channel empty and every Sender
\* dropped: await_splash shows the error and exits, the splash loop leaves the
\* loop, await_termination returns and start_internal with it
OnDisconnect(phase) ==
    CASE phase = "await_splash" -> "exit 1"
      [] phase = "splash" -> "await_termination"
      [] phase = "await_termination" -> "exit 0"

\* an await_termination that leaves its loop on ApplicationTerminated only after the
\* window was closed
OnMessage_TerminatedAfterVisible(phase, m) ==
    CASE m = "Error" -> "exit 1"
      [] m = "SplashReady" /\ phase = "await_splash" -> "splash"
      [] m = "FilesReady" /\ phase = "splash" -> "await_termination"
      [] m = "ApplicationTerminated" /\ phase = "await_termination" /\ closes > 0 -> "exit 0"
      [] OTHER -> phase

\* what the main thread does with a received message: await_splash,
\* show_and_await_termination, await_termination
OnMessage(phase, m) ==
    CASE m = "Error" -> "exit 1"
      [] m = "SplashReady" /\ phase = "await_splash" -> "splash"
      [] m = "FilesReady" /\ phase = "splash" -> "await_termination"
      [] m = "ApplicationTerminated" /\ phase = "await_termination" -> "exit 0"
      [] OTHER -> phase

\* drop of the Option<Window> of await_termination: the window is closed if it is
\* still held (n: how often it has been closed)
drop_win(n) == IF n = 0 THEN 1 ELSE n

\* rx.recv / rx.recv_timeout returns a message; await_termination (not macOS) drops
\* the window on ApplicationUiVisible, and when it returns after its loop
MainRecv ==
    /\ Alive
    /\ chan # << >>
    /\ ui' = OnMessage(ui, Head(chan))
    /\ chan' = Tail(chan)
    /\ closes' = IF ui = "await_termination"
                    /\ (Head(chan) = "ApplicationUiVisible" \/ OnMessage(ui, Head(chan)) = "exit 0")
                 THEN drop_win(closes) ELSE closes
    /\ UNCHANGED <<fs, pc, run, srv, content, desc, loop, toDelete, locks, err, started, hist,
                   pre, pin, pout, dl, begin, cached, senders, walk>>

\* rx.recv / rx.recv_timeout returns the disconnect error
MainDisconnected ==
    /\ Alive
    /\ chan = << >> /\ senders = {}
    /\ ui' = OnDisconnect(ui)
    /\ closes' = IF ui = "await_termination" THEN drop_win(closes) ELSE closes
    /\ UNCHANGED <<fs, pc, run, srv, content, desc, loop, toDelete, locks, err, started, hist,
                   pre, pin, pout, dl, begin, cached, chan, senders, walk>>

NextUi ==
    \/ WorkerStep \/ WorkerDownload \/ WorkerShowSplash \/ WorkerStartJvm \/ ProbeVisible
    \/ WorkerMainReturns \/ WorkerOk \/ WorkerErr \/ WorkerPanic
    \/ MainRecv \/ MainDisconnected

SpecUi == InitUi /\ [][NextUi]_vars

\* the main thread is scheduled: a recv on a channel that holds a message, or whose
\* Senders are all dropped, returns
FairUi == SpecUi /\ WF_vars(MainRecv) /\ WF_vars(MainDisconnected)

-----------------------------------------------------------------------------
(* The progress counter of a download_and_store batch (download_manager.rs,   *)
(* ui/mod.rs)                                                                 *)

MaxBatch == 2       \* artifacts of a batch
MaxDeclared == 2    \* declared download_size (or size) of an artifact, in bytes
MaxTransfer == 3    \* bytes a transfer delivers
MaxSent == 3        \* messages a batch sends before the run is cut off

\* the value `as usize` saturates to; usize::MAX itself is beyond the integers of the
\* model checker, so the largest one it has stands for it
usize_MAX == 2147483647

\* (progress * MAX_DOWNLOAD_PROGRESS as f64) as usize for progress = num as f64 /
\* den as f64: x / 0.0 is infinite and 0.0 / 0.0 is NaN; the cast truncates,
\* saturates, and maps NaN to 0
new_progress(num, den) ==
    IF den = 0
    THEN IF num = 0 THEN 0 ELSE usize_MAX
    ELSE (num * MAX_DOWNLOAD_PROGRESS) \div den

\* UserInterface::set_download_progress: the value the counter holds afterwards
set_download_progress(old_progress, num, den) ==
    IF new_progress(num, den) # old_progress THEN new_progress(num, den) ELSE old_progress

RECURSIVE Sum(_)
Sum(q) == IF q = << >> THEN 0 ELSE Head(q) + Sum(Tail(q))

\* total_size of download_and_store
total_size == Sum(dl.sizes)

\* the smallest declared size for which one byte more than declared takes the
\* quotient past MAX_DOWNLOAD_PROGRESS + 1 without reaching MAX_DOWNLOAD_PROGRESS + 2
HalfScale == MAX_DOWNLOAD_PROGRESS \div 2 + 1

\* the declared sizes of the artifacts of a batch
DeclaredSizes == 0..MaxDeclared \cup { HalfScale }

\* the number of bytes a transfer may have delivered
Transferred == 0..MaxTransfer \cup { HalfScale, HalfScale + 1 }

\* the messages a set_download_progress on the counter value c sends
SentBySet(c) == IF c = NOT_INITIALIZED THEN << "Downloading" >> ELSE << >>

InitProgress ==
    /\ fs = EmptyRoot /\ srv = 1
    /\ pc = "batch" /\ run = 1 /\ content = 0 /\ desc = 0
    /\ ctx = "none" /\ cur = << >> /\ todo = << >> /\ result = << >>
    /\ toDelete = {} /\ locks = {} /\ err = "none" /\ started = FALSE
    /\ outcome = << >> /\ srvGood = TRUE /\ old = << >> /\ completed = {}
    /\ restored = {} /\ win = NoWin /\ pre = EmptyRoot /\ begin = fs /\ cached = 0
    /\ pin = NoInput /\ pout = "none" /\ UiOff /\ walk = NoWalk
    /\ \E n \in 0..MaxBatch : \E q \in [1..n -> DeclaredSizes] :
         dl = [NoDownload EXCEPT !.sizes = q, !.i = 1]

\* the artifact dl.i is the one being processed
Begun == result # << >> /\ result[Len(result)] = dl.i

\* the next artifact of the loop: path_for_write returned Ok, the target is created
\* and the request sent (result: the artifacts touched so far, in the order of it)
ProgressBegin ==
    /\ pc = "batch" /\ dl.i <= Len(dl.sizes) /\ ~Begun
    /\ result' = Append(result, dl.i)
    /\ UNCHANGED <<fs, pc, run, srv, content, desc, ctx, cur, todo, toDelete, locks, err, started,
                   hist, pre, pin, pout, begin, cached, chan, senders, ui, dl, walk, closes>>

\* the ProgressReader callback after a read of n bytes
ProgressRead ==
    /\ pc = "batch" /\ Begun /\ Len(chan) < MaxSent
    /\ \E n \in Transferred :
        /\ dl.file + n \in Transferred
        /\ dl' = [dl EXCEPT !.file = @ + n,
                            !.counter = set_download_progress(@, dl.downloaded + dl.file + n,
                                                              total_size)]
    /\ chan' = chan \o SentBySet(dl.counter)
    /\ UNCHANGED <<fs, pc, run, srv, content, desc, loop, toDelete, locks, err, started, hist,
                   pre, pin, pout, begin, cached, senders, ui, walk, closes>>

\* the transfer of the artifact has ended: downloaded += download_size.unwrap_or(size)
\* and set_download_progress(downloaded / total_size)
ProgressArtifact ==
    /\ pc = "batch" /\ Begun
    /\ dl' = [dl EXCEPT !.downloaded = @ + dl.sizes[dl.i],
                        !.file = 0,
                        !.i = @ + 1,
                        !.counter = set_download_progress(@, dl.downloaded + dl.sizes[dl.i],
                                                          total_size)]
    /\ chan' = chan \o SentBySet(dl.counter)
    /\ UNCHANGED <<fs, pc, run, srv, content, desc, loop, toDelete, locks, err, started, hist,
                   pre, pin, pout, begin, cached, senders, ui, walk, closes>>

\* an artifact whose processing fails and ends download_and_store with it
ProgressFail_Continues ==
    /\ pc = "batch" /\ dl.i <= Len(dl.sizes)
    /\ dl' = [dl EXCEPT !.file = 0, !.i = @ + 1]
    /\ err' = "Err"
    /\ UNCHANGED <<fs, pc, run, srv, content, desc, loop, toDelete, locks, started, hist,
                   pre, pin, pout, begin, cached, chan, senders, ui, walk, closes>>

\* the processing of the artifact fails (path_for_write, create_dir_all, File::create,
\* the request, the transfer or unpack): `?` returns the error from download_and_store
ProgressFail ==
    /\ pc = "batch" /\ dl.i <= Len(dl.sizes)
    /\ pc' = "batch failed" /\ err' = "Err"
    /\ UNCHANGED <<fs, run, srv, content, desc, loop, toDelete, locks, started, hist,
                   pre, pin, pout, begin, cached, chan, senders, ui, dl, walk, closes>>

\* after the last artifact: UserInterface::download_done, and Ok is returned
ProgressDone ==
    /\ pc = "batch" /\ dl.i > Len(dl.sizes)
    /\ chan' = Append(chan, "FilesReady")
    /\ dl' = [dl EXCEPT !.counter = NOT_INITIALIZED]
    /\ pc' = "batch done"
    /\ UNCHANGED <<fs, run, srv, content, desc, loop, toDelete, locks, err, started, hist,
                   pre, pin, pout, begin, cached, senders, ui, walk, closes>>

NextProgress == ProgressBegin \/ ProgressRead \/ ProgressArtifact \/ ProgressFail \/ ProgressDone

SpecProgress == InitProgress /\ [][NextProgress]_vars

-----------------------------------------------------------------------------
(* The splash loop of the main thread while the worker is in the             *)
(* download_and_store of the artifacts (ui/splash.rs:118-156).  ctx tells     *)
(* whether cur_progress is Some, old holds the counter value the last render  *)
(* read.                                                                      *)

InitSplash ==
    /\ fs = EmptyRoot /\ srv = 1
    /\ pc = "batch" /\ run = 1 /\ content = 0 /\ desc = 0
    /\ ctx = "none" /\ cur = << >> /\ todo = << >> /\ result = << >>
    /\ toDelete = {} /\ locks = {} /\ err = "none" /\ started = FALSE
    /\ outcome = << >> /\ srvGood = TRUE /\ old = << >> /\ completed = {}
    /\ restored = {} /\ win = NoWin /\ pre = EmptyRoot /\ begin = fs /\ cached = 0
    /\ pin = NoInput /\ pout = "none" /\ walk = NoWalk
    /\ chan = << >> /\ senders = { "worker" } /\ ui = "render" /\ closes = 0
    /\ \E n \in 0..MaxBatch : \E q \in [1..n -> DeclaredSizes] :
         dl = [NoDownload EXCEPT !.sizes = q, !.i = 1]

\* the top of the loop: the background is drawn and, when cur_progress is Some, the
\* counter is loaded for ${progress}; after the redraw that follows exit_loop the loop
\* is left
SplashRender ==
    /\ ui \in { "render", "last render" }
    /\ old' = IF ctx = "some" THEN << dl.counter >> ELSE << >>
    /\ ui' = IF ui = "render" THEN "recv" ELSE "await_termination"
    /\ UNCHANGED <<fs, pc, run, srv, content, desc, ctx, cur, todo, result, toDelete, locks, err,
                   started, outcome, srvGood, completed, restored, win, pre, pin, pout, begin,
                   cached, chan, senders, dl, walk, closes>>

\* rx.recv_timeout(10 ms): Downloading sets cur_progress, FilesReady clears it and
\* sets exit_loop, a timeout changes nothing
SplashRecv ==
    /\ ui = "recv"
    /\ \/ /\ chan # << >>
          /\ chan' = Tail(chan)
          /\ ctx' = CASE Head(chan) = "Downloading" -> "some"
                      [] Head(chan) = "FilesReady" -> "none"
                      [] OTHER -> ctx
          /\ ui' = IF Head(chan) = "FilesReady" THEN "last render" ELSE "render"
       \/ /\ chan = << >>
          /\ ui' = "render"
          /\ UNCHANGED <<chan, ctx>>
    /\ UNCHANGED <<fs, pc, run, srv, content, desc, cur, todo, result, toDelete, locks, err,
                   started, hist, pre, pin, pout, begin, cached, senders, dl, walk, closes>>

NextSplash == NextProgress \/ SplashRender \/ SplashRecv

SpecSplash == InitSplash /\ [][NextSplash]_vars

-----------------------------------------------------------------------------
(* The archive branch of the checksum validator (validation/checksum.rs).     *)
(* A relative path is the sequence of its characters; a per-file hash is the  *)
(* content it was taken of; a digest is the stream the hasher was fed.        *)

\* the characters of the paths below, in the order of their bytes
Alphabet == << "/", "\\", "a", "b", "c" >>

Code(ch) == CHOOSE i \in DOMAIN Alphabet : Alphabet[i] = ch

\* the order of String, which the BTreeMap iterates in: byte by byte, a proper
\* prefix first
RECURSIVE StringLess(_, _)
StringLess(x, y) ==
    IF y = << >> THEN FALSE
    ELSE IF x = << >> THEN TRUE
    ELSE IF Head(x) # Head(y) THEN Code(Head(x)) < Code(Head(y))
    ELSE StringLess(Tail(x), Tail(y))

\* the key of an entry: its path below the archive directory with every backslash
\* replaced by a slash (.replace("\\", "/"))
MapKey(p) == [i \in DOMAIN p |-> IF p[i] = "\\" THEN "/" ELSE p[i]]

\* hashes.insert(path, hash): the value replaces the one the key had
Insert(map, p, h) == (MapKey(p) :> h) @@ map

\* the hasher is fed path, tab, hash, newline for every entry of the map, in the
\* order of the keys; the digest of a stream stands for the stream
RECURSIVE Feed(_, _)
Feed(map, keys) ==
    IF keys = {} THEN << >>
    ELSE LET k == CHOOSE x \in keys : \A y \in keys \ { x } : StringLess(x, y)
         IN << k, "\t", map[k], "\n" >> \o Feed(map, keys \ { k })

\* finalize(hasher) after the loop over the map
ArchiveHash(map) == Feed(map, DOMAIN map)

\* the files an archive directory can hold: a/b, the file named a\b, and c
TreePaths == { << "a", "/", "b" >>, << "a", "\\", "b" >>, << "c" >> }

\* directory trees: some of the paths, each with the hash of its file
Trees == UNION { [P -> { hash(V1), hash(V2) }] : P \in SUBSET TreePaths }

InitWalk ==
    /\ fs = EmptyRoot /\ srv = 1
    /\ pc = "walk" /\ run = 1 /\ content = 0 /\ desc = 0
    /\ ctx = "none" /\ cur = << >> /\ todo = << >> /\ result = << >>
    /\ toDelete = {} /\ locks = {} /\ err = "none" /\ started = FALSE
    /\ outcome = << >> /\ srvGood = TRUE /\ old = << >> /\ completed = {}
    /\ restored = {} /\ win = NoWin /\ pre = EmptyRoot /\ begin = fs /\ cached = 0
    /\ pin = NoInput /\ pout = "none" /\ UiOff /\ dl = NoDownload
    /\ \E t \in Trees : walk = [NoWalk EXCEPT !.tree = t, !.left = DOMAIN t]

\* WalkDir yields an entry, in the order the directory listing has, and its hash
\* is inserted
WalkEntry ==
    /\ pc = "walk"
    /\ \E p \in walk.left :
         walk' = [walk EXCEPT !.left = @ \ { p },
                              !.hashes = Insert(@, p, walk.tree[p])]
    /\ UNCHANGED <<fs, pc, run, srv, content, desc, loop, toDelete, locks, err, started, hist,
                   pre, pin, pout, begin, cached, chan, senders, ui, dl, closes>>

\* the walk is over: the map is fed to the hasher
WalkEnd ==
    /\ pc = "walk" /\ walk.left = {}
    /\ walk' = [walk EXCEPT !.digest = ArchiveHash(walk.hashes)]
    /\ pc' = "hashed"
    /\ UNCHANGED <<fs, run, srv, content, desc, loop, toDelete, locks, err, started, hist,
                   pre, pin, pout, begin, cached, chan, senders, ui, dl, closes>>

NextWalk == WalkEntry \/ WalkEnd

SpecWalk == InitWalk /\ [][NextWalk]_vars

-----------------------------------------------------------------------------
(* Properties *)

\* the run before this one was killed, and started from a complete installation
KilledFromValid ==
    /\ Len(outcome) >= 2
    /\ outcome[Len(outcome)] = "Crashed"
    /\ outcome[Len(outcome) - 1] = "Done"

AllValid(d) == \A a \in Range(all_artifacts(Descriptors[d])) : validate(fs, a)

\* the paths the spec calls managed: artifacts, splash, the three reserved names,
\* and the unmanaged roots the sweep keeps beside them
KeptPaths(d) ==
    { a.path : a \in Range(all_artifacts(d)) }
        \cup { APP, LOG, <<BACKUP_DIR>> }
        \cup Range(d.unmanaged_paths)

\* the descriptor URL serves a descriptor (D2 of the runs against it)
PublishesDescriptor == srv \in DOMAIN Descriptors

C1_Safe ==
    (KilledFromValid /\ PublishesDescriptor /\ srvGood) =>
        /\ pc \notin { "Fatal", "Panicked" }
        /\ pc \in { "LaunchRuntime", "Running" } => (desc = srv /\ AllValid(desc))

\* C1: after a kill at any point of a run that started from a valid installation,
\* the next run, not killed and served the published descriptor and artifacts,
\* never ends in an error, reaches the runtime launch, and every artifact of the
\* published descriptor validates at the launch.
C1_RecoversAfterKill ==
    /\ []C1_Safe
    /\ (KilledFromValid /\ PublishesDescriptor /\ pc = "Start")
          ~> (pc = "Running" \/ ~srvGood \/ pc = "Crashed")

\* C1 witness: a run killed in the middle of a transfer is followed by a run that
\* downloads that artifact and starts the runtime
C1_Witness ==
    /\ KilledFromValid /\ srvGood /\ pc = "Running"
    /\ win # NoWin /\ win.rel \in completed /\ desc # 1

\* C2: when a kill fell between path_for_write(P) and the end of the write of P,
\* then in the next run, once restore_trash(P) has returned and P has not been
\* moved again, P validates against every artifact entry it validated against
\* before path_for_write(P).
C2_RestoredValidates ==
    (/\ pc \notin Terminal
     /\ outcome[Len(outcome)] = "Crashed"
     /\ win.rel \in restored
     /\ win.rel \notin DOMAIN old)
        => \A a \in win.ok : validate(fs, a)

\* C2 witness: the kill interrupted the write of a path that validated before, and
\* restore_trash has just brought it back
C2_Witness ==
    /\ pc \notin Terminal
    /\ outcome[Len(outcome)] = "Crashed"
    /\ win.rel \in restored /\ win.rel \notin DOMAIN old
    /\ win.ok # {} /\ srv \in DOMAIN Descriptors
    /\ ~validate(fs, CHOOSE a \in Range(all_artifacts(Descriptors[srv])) : a.path = win.rel)

\* the reconcile of this run has not reached the removal loop of the sweep
BeforeSweep == ctx \in { "splash", "artifacts" } /\ pc \notin { "SweepDel", "Lock", "Crashed" }

\* delete_unused_files has returned Ok in this run
AfterSweep == pc = "Lock" \/ (ctx = "verify" /\ pc # "Crashed")

C4_Original ==
    pc = "Fatal" =>
        \A P \in completed \cap DOMAIN old :
            \/ Tree(fs, path(P)) = old[P].tree
            \/ Tree(fs, backup_path(P)) = old[P].tree

\* C5 (as claimed): at the runtime launch every artifact of all_artifacts(), the
\* splash included, validates.
C5_Original ==
    pc \in { "LaunchRuntime", "Running" } => AllValid(desc)

\* C6 (as claimed): start_jvm is called only with the locks taken and every entry
\* of descriptor.artifacts validating; when verify_installation fails the run ends
\* with a Validation error and the runtime is not started.
C6_Original ==
    /\ pc \in { "LaunchRuntime", "Running" } =>
          \A a \in Range(Descriptors[desc].artifacts) : validate(fs, a)
    /\ started => pc \in { "Running", "Unlock", "Done", "Crashed" }
    /\ (pc = "Fatal" /\ ctx = "verify") => (~started /\ err = "ValidationError")

\* C7: after delete_unused_files has returned Ok, every entry left under the root
\* is an artifact path, the splash path, a reserved name or an unmanaged path, or
\* lies below or above one of these.
C7_NoOrphanLeft ==
    pc = "swept" =>
        \A n \in Nodes :
            Exists(fs, n) =>
                \E m \in KeptPaths(Descriptors[desc]) : starts_with(n, m) \/ starts_with(m, n)

\* C7 witness: an orphan beside a managed file inside a shared directory was removed
C7_Witness ==
    /\ pc = "swept" /\ desc = 1
    /\ Exists(pre, <<"lib", "old.jar">>) /\ ~Exists(fs, <<"lib", "old.jar">>)
    /\ Exists(fs, <<"lib", "a.jar">>)

\* C8 (as claimed): delete_unused_files deletes nothing at or below an
\* unmanagedPaths entry.
C8_Original ==
    pc = "swept" =>
        \A n \in Nodes :
            (\E u \in Range(Descriptors[desc].unmanaged_paths) : starts_with(n, u))
                => fs[n] = pre[n]

\* C9 (as claimed): delete_unused_files leaves app.json, launcher.log and
\* .launcher.backup with everything below it as they were.
C9_Original ==
    pc = "swept" =>
        \A n \in Nodes :
            (n = APP \/ n = LOG \/ starts_with(n, <<BACKUP_DIR>>)) => fs[n] = pre[n]

\* C9 (amended): delete_unused_files leaves app.json and launcher.log as they
\* were; .launcher.backup is not among the kept paths, and the sweep removes it
\* with everything below it.
C9_KeepsDescriptorAndLog ==
    pc = "swept" =>
        /\ fs[APP] = pre[APP]
        /\ fs[LOG] = pre[LOG]
        /\ \A n \in Nodes : starts_with(n, <<BACKUP_DIR>>) => ~Exists(fs, n)

\* C9 witness: a sweep of a root that held all three reserved names
C9_Witness ==
    /\ pc = "swept"
    /\ Exists(pre, APP) /\ Exists(pre, LOG) /\ Exists(pre, backup_path(<<"lib", "a.jar">>))
    /\ Exists(fs, APP) /\ Exists(fs, LOG)

HasDotDot(in) == \E i \in 1..Len(in.paths) : ContainsDotDot(in.paths[i])

\* C10 (as claimed): for a descriptor with ".." in an artifact path or in the
\* splash path, parse returns an error of kind Signature (or Security).
C10_Original ==
    (pc = "parsed" /\ pin.json /\ HasDotDot(pin)) => pout \in { "SignatureError", "SecurityError" }

\* C10 (amended): for a descriptor that deserializes and has ".." in an artifact
\* path or in the splash path, parse returns nothing to its caller: it panics,
\* whatever the signature field and the trust anchor are.
C10_PanicsOnDotDot ==
    (pc = "parsed" /\ pin.json /\ HasDotDot(pin)) => pout = "Panic"

\* C10 witness: a traversal path in a descriptor with a good signature and a trust anchor
C10_Witness ==
    /\ pc = "parsed" /\ pin.json /\ HasDotDot(pin)
    /\ pin.key /\ pin.feature /\ pin.signature = "good"

\* C11 (as claimed): every path of a descriptor that parse accepts is relative,
\* and path and backup_path resolve it to a location inside the installation root.
C11_Original ==
    (pc = "parsed" /\ pout = "Ok") =>
        \A i \in 1..Len(pin.paths) :
            /\ ~is_absolute(pin.paths[i])
            /\ starts_with(resolved_path(pin.paths[i]), root_dir)
            /\ starts_with(resolved_backup_path(pin.paths[i]), root_dir)

\* the launcher passes a trust anchor to parse exactly in a build with the
\* signature feature (lib.rs: the two variants of start)
BuildPassesKey(in) == in.key = in.feature

RejectedFetched ==
    /\ pc = "Fatal" /\ err \in { "InvalidJSON", "SignatureError" }
    /\ APP \notin restored

\* C13 (as claimed): when parse rejects the fetched descriptor the run has written
\* nothing under the root but the log: app.json is as the run found it, and what
\* app.json holds parses.
C13_Original ==
    RejectedFetched =>
        /\ \A n \in Nodes \ { LOG } : fs[n] = begin[n]
        /\ Exists(fs, APP) => parse(ParseInput(fs[APP].data)) = "Ok"

\* C14 (as claimed): get_descriptor() directly after store_descriptor(b) returns
\* exactly b, whatever the root held before.
C14_Original ==
    pc = "loaded" => result = << content >>

\* C15 (as claimed): a second reconcile against the same descriptor, with nothing
\* changed in between, finds nothing to download.
C15_Original ==
    pc = "twice" => result = << >>

\* C16: a second delete_unused_files with the same descriptor, directly after a
\* first one that returned Ok, finds no entry to delete and leaves the root as
\* it is.
C16_SweepIdempotent ==
    [][pc = "swept" => (toDelete' = {} /\ fs' = fs)]_vars

\* C16 witness: the second call has returned after a first call that removed an
\* orphan file and an orphan directory
C16_Witness ==
    /\ pc = "swept twice"
    /\ Exists(pre, <<"lib", "old.jar">>) /\ ~Exists(fs, <<"lib", "old.jar">>)
    /\ Exists(pre, <<"plugins", "x.so">>) /\ ~Exists(fs, <<"plugins">>)
    /\ Exists(fs, <<"jre", "f">>)

\* app.json holds descriptor d, nothing is in the trash, and every artifact of d
\* validates: the installation a successful run against d leaves
CachedIntact(d) ==
    /\ fs[APP] = File(d)
    /\ ~Exists(fs, <<BACKUP_DIR>>)
    /\ AllValid(d)

\* this run's descriptor fetch failed and get_descriptor has returned; the run
\* before it ended Ok and left an intact installation of the cached descriptor
OfflineOnIntact ==
    /\ APP \in restored
    /\ outcome[Len(outcome)] = "Done"
    /\ cached # 0

\* the run was killed, or the operating system refused a lock
Interrupted == pc = "Crashed" \/ (pc = "Panicked" /\ ctx = "lock")

C17_Safe ==
    (OfflineOnIntact /\ ~Interrupted) =>
        /\ pc \notin { "Fatal", "Panicked" }
        /\ content = cached
        /\ desc \in { 0, cached }
        /\ completed = {} /\ DOMAIN old \subseteq { APP }
        /\ pc \in { "LaunchRuntime", "Running" } => (desc = cached /\ AllValid(desc))

\* C17: when the descriptor fetch fails and the root holds the cached descriptor of
\* a prior successful run with an intact installation, the run uses the cached
\* descriptor, downloads nothing, moves nothing but app.json to the trash, never
\* ends in an error and (unless it is killed or refused a lock) reaches the
\* runtime launch.
C17_OfflineRestart ==
    /\ []C17_Safe
    /\ (OfflineOnIntact /\ pc = "Mt" /\ ctx = "store")
          ~> (pc = "Running" \/ Interrupted)

\* C17 witness: an offline run on an intact installation has started the runtime
C17_Witness ==
    /\ pc = "Running" /\ OfflineOnIntact
    /\ desc = cached /\ srv # desc
    /\ completed = {} /\ AllValid(desc)

\* the descriptor fetch of this run failed, get_descriptor is at work or has returned
\* None, and the run began on a root with no app.json, live or in the trash
NoCachedDescriptor ==
    /\ ctx = "cache"
    /\ ~Exists(begin, path(APP)) /\ ~Exists(begin, backup_path(APP))

\* C18: when the descriptor fetch fails and no cached descriptor exists, the run
\* ends with a Download error (or is killed first); no descriptor was parsed, so
\* show_splash was not called and the runtime not started, and nothing under the
\* root but the log was written: app.json and every artifact path are as the run
\* found them.
C18_NoCachedDescriptor ==
    NoCachedDescriptor =>
        /\ pc \in { "Rt", "Fatal", "Crashed" }
        /\ pc = "Fatal" => err = "DownloadError"
        /\ content = 0 /\ desc = 0 /\ ~started /\ locks = {} /\ completed = {}
        /\ \A n \in Nodes \ { LOG } : fs[n] = begin[n]
        /\ ~Exists(fs, path(APP))

\* C18 witness: a first run without network has ended with the Download error
C18_Witness ==
    /\ NoCachedDescriptor
    /\ pc = "Fatal" /\ err = "DownloadError"
    /\ APP \in restored /\ Exists(fs, LOG)

\* every file the claim names is locked: each file artifact's path, the splash's
\* path, each regular file below an archive artifact's directory, and app.json
InstallationPinned ==
    /\ path(APP) \in locks
    /\ path(Descriptors[desc].splash.path) \in locks
    /\ \A i \in DOMAIN Descriptors[desc].artifacts :
         LET a == Descriptors[desc].artifacts[i]
         IN IF is_archive(a)
            THEN \A n \in Nodes :
                    (starts_with(n, path(a.path)) /\ fs[n].kind = "file") => n \in locks
            ELSE path(a.path) \in locks

\* C19: the locks taken by lock_installation are all held when start_jvm is called
\* and while the runtime's main runs; while main runs the lock set does not change
\* (unless the process is killed), and unlock_files releases it only after main
\* and start_jvm have returned.
C19_LocksHeldWhileRunning ==
    /\ [](pc \in { "LaunchRuntime", "Running", "Unlock" } => InstallationPinned)
    /\ [][/\ (pc \in { "LaunchRuntime", "Running" } /\ pc' # "Crashed") => locks' = locks
          /\ (pc' = "Done" /\ locks # {}) => (pc = "Unlock" /\ started /\ locks' = {})
          /\ pc' = "Unlock" => pc = "Running"]_vars

\* C19 witness: main has returned with the splash, lib/a.jar, a file of the runtime
\* archive and app.json still locked
C19_Witness ==
    /\ pc = "Unlock" /\ started
    /\ { path(APP), <<"splash">>, <<"lib", "a.jar">> } \subseteq locks
    /\ \E n \in locks : Len(n) > 1 /\ n[1] = "jre"

\* lock_installation could not open or lock one of its files, and the run has ended
LockRefused == ctx = "lock" /\ pc \in { "Fatal", "Panicked" }

\* C20 (as claimed): when a lock cannot be acquired on one of the files the run
\* ends as a fatal Storage error, the runtime was never started and no lock is
\* held any more.
C20_Original ==
    LockRefused => (pc = "Fatal" /\ err = "StorageError" /\ ~started /\ locks = {})

\* C21 (as claimed): while this instance holds its shared locks and its runtime
\* runs, a path_for_write of another instance leaves every locked file in place.
C21_Original ==
    [][(pc = "Running" /\ pc' = "Running") => \A p \in locks : fs'[p] = fs[p]]_vars

\* C22 (as claimed): the process exits with code 0 only when run completed: when
\* the worker ended in a failure the main thread does not exit with code 0.
C22_Original == ui = "exit 0" => pc \in { "Unlock", "Done" }

\* C23 (as claimed): within a batch the counter never decreases from one
\* set_download_progress call to the next.
C23_Original ==
    [][(pc' = "batch" /\ dl.counter # NOT_INITIALIZED) => dl'.counter >= dl.counter]_vars

\* C24 (as claimed): from the first set_download_progress of a batch to
\* download_done the counter is within 0..MAX_DOWNLOAD_PROGRESS.
C24_Original ==
    (pc = "batch" /\ dl.counter # NOT_INITIALIZED) => dl.counter \in 0..MAX_DOWNLOAD_PROGRESS

\* the map a walk leaves that yields the entries of the tree in the order of
\* their paths
RECURSIVE SortedWalk(_, _)
SortedWalk(t, paths) ==
    IF paths = {} THEN << >>
    ELSE LET p == CHOOSE x \in paths : \A y \in paths \ { x } : StringLess(y, x)
         IN Insert(SortedWalk(t, paths \ { p }), p, t[p])

\* C25 (as claimed): the archive hash is the same whatever the order in which the
\* walk lists the entries of a tree (it is the hash the walk in path order gives),
\* and a tree without files hashes as the empty stream.
C25_Original ==
    pc = "hashed" =>
        /\ walk.digest = ArchiveHash(SortedWalk(walk.tree, DOMAIN walk.tree))
        /\ DOMAIN walk.tree = {} => walk.digest = << >>

\* the orchestrator step a position of run belongs to: 1 create root and log,
\* 2 fetch descriptor (with the fallback on app.json), 3 persist snapshot, 4 parse
\* and verify, 5 reconcile splash, 6 show splash, 7 reconcile artifacts, 8 sweep
\* orphans, 9 lock, 10 verify installation, 11 launch runtime, 12 unlock, 13 returned
StepOf(p, c) ==
    CASE p = "Start" -> 1
      [] p = "Fetch" \/ c = "cache" -> 2
      [] p \in { "Mt", "StoreCreate", "StoreWrite" } /\ c = "store" -> 3
      [] p = "Parse" -> 4
      [] p \in { "Check", "Rt", "Download", "Mt", "DlCreate", "DlTransfer" } /\ c = "splash" -> 5
      [] p = "ShowSplash" -> 6
      [] p \in { "Check", "Rt", "Download", "Mt", "DlCreate", "DlTransfer" } /\ c = "artifacts" -> 7
      [] p \in { "Sweep", "SweepDel" } -> 8
      [] p = "Lock" -> 9
      [] p \in { "Check", "Rt" } /\ c = "verify" -> 10
      [] p \in { "LaunchRuntime", "Running" } -> 11
      [] p = "Unlock" -> 12
      [] p = "Done" -> 13

Failed == { "Fatal", "Panicked", "Crashed" }

\* C26: within a run the orchestrator steps occur in the order create root, fetch
\* descriptor, persist snapshot, parse, reconcile splash, show splash, reconcile
\* artifacts, sweep, lock, verify installation, launch runtime, unlock: every move of
\* the worker stays in its step or enters the next one, none is skipped or entered
\* again, and after a failure nothing follows but the next start of the launcher.
\* No lock is held before the lock step and the runtime is not started before the
\* launch step.
C26_StepsInOrder ==
    /\ [](pc \notin Failed =>
            /\ StepOf(pc, ctx) < 9 => locks = {}
            /\ StepOf(pc, ctx) < 11 => ~started)
    /\ [][IF pc \in Terminal
          THEN pc' = "Start" /\ run' = run + 1
          ELSE pc' \in Failed \/ StepOf(pc', ctx') \in { StepOf(pc, ctx), StepOf(pc, ctx) + 1 }]_vars

\* C26 witness: a run that downloaded artifacts and swept has gone through every
\* step and returned
C26_Witness ==
    /\ pc = "Done" /\ started /\ completed # {}
    /\ pre # EmptyRoot /\ Exists(fs, LOG) /\ Exists(fs, APP)

\* the entry for cur is not at its live path, and the trash holds exactly the entry
\* that was live (or, when none was live, what it held before)
MovedToTrash ==
    /\ ~Exists(fs, path(cur))
    /\ Tree(fs, backup_path(cur)) =
          IF Exists(pre, path(cur)) THEN Tree(pre, path(cur)) ELSE Tree(pre, backup_path(cur))

\* the paths that are neither at or below path(cur) nor at or below its trash entry
OtherPaths ==
    { n \in Nodes : ~starts_with(n, path(cur)) /\ ~starts_with(n, backup_path(cur)) }

\* the directories the trash entry of cur lies in
TrashAncestors ==
    { n \in Nodes : n # backup_path(cur) /\ starts_with(backup_path(cur), n) }

\* C27 (as claimed): after path_for_write(rel) no entry exists at path(rel), the
\* trash holds exactly the entry that was live (a prior trash entry is gone), or is
\* unchanged when none was live, and no other path is changed.
C27_Original ==
    pc = "moved" => (MovedToTrash /\ \A n \in OtherPaths : fs[n] = pre[n])

\* C27 (amended): as claimed, except that the directories the trash entry lies in
\* (.launcher.backup and the directories of rel below it) exist afterwards when an
\* entry was live; every other path is unchanged, and so are these directories when
\* no entry was live.
C27_PathForWriteFrame ==
    pc = "moved" =>
        /\ MovedToTrash
        /\ \A n \in OtherPaths \ TrashAncestors : fs[n] = pre[n]
        /\ \A n \in TrashAncestors :
             fs[n] = IF Exists(pre, path(cur)) THEN Dir ELSE pre[n]

\* C27 witness: a live archive directory replaced a stale trash entry, and the trash
\* directory was there before
C27_Witness ==
    /\ pc = "moved" /\ cur = << "jre" >>
    /\ Exists(pre, path(cur)) /\ Exists(pre, backup_path(cur))
    /\ Tree(pre, backup_path(cur)) # Tree(pre, path(cur))
    /\ Tree(fs, backup_path(cur)) = Tree(pre, path(cur))

\* C28: after restore_trash(rel) has returned Ok: when a trash entry for rel existed,
\* path(rel) holds what the trash held (the earlier live entry is gone) and the trash
\* entry is absent; when none existed, the root is unchanged.  get_descriptor returns
\* the trash copy of app.json when there is one, and the live copy otherwise.
C28_RestoreTrash ==
    /\ (pc = "restored" /\ err = "none") =>
          IF Exists(pre, backup_path(cur))
          THEN /\ Tree(fs, path(cur)) = Tree(pre, backup_path(cur))
               /\ ~Exists(fs, backup_path(cur))
          ELSE fs = pre
    /\ pc = "got" =>
          result = IF pre[backup_path(APP)].kind = "file" THEN << pre[backup_path(APP)].data >>
                   ELSE IF pre[path(APP)].kind = "file" THEN << pre[path(APP)].data >>
                   ELSE << >>

\* C28 witness: the trash entry replaced a different live entry
C28_Witness ==
    /\ pc = "restored" /\ err = "none"
    /\ Exists(pre, backup_path(cur)) /\ Exists(pre, path(cur))
    /\ Tree(pre, backup_path(cur)) # Tree(pre, path(cur))
    /\ Tree(fs, path(cur)) = Tree(pre, backup_path(cur))

\* C29: move_to_trash(rel) followed by restore_trash(rel) on a root with a live entry
\* for rel leaves the live entry as it was before move_to_trash, whatever stale
\* trash entry for rel there was: the stale entry is gone and is not what is live.
C29_MoveThenRestore ==
    (pc = "moved and restored" /\ Exists(pre, path(cur))) =>
        /\ err = "none"
        /\ Tree(fs, path(cur)) = Tree(pre, path(cur))
        /\ ~Exists(fs, backup_path(cur))

\* C29 witness: the live entry is back although a different stale trash entry existed
C29_Witness ==
    /\ pc = "moved and restored"
    /\ Exists(pre, path(cur)) /\ Exists(pre, backup_path(cur))
    /\ Tree(pre, backup_path(cur)) # Tree(pre, path(cur))
    /\ Tree(fs, path(cur)) = Tree(pre, path(cur))
    /\ ~Exists(fs, backup_path(cur))

\* the size the size validator measures at the path of a: the length of the file, or
\* for an archive the lengths of the regular files at or below it taken together
MeasuredSize(f, a) ==
    IF is_archive(a) THEN SumSizes(f, FilesUnder(f, path(a.path)))
    ELSE IF f[path(a.path)].kind = "file" THEN Size(f[path(a.path)].data) ELSE 0

\* the digest input at the path of a is what a.checksum was taken over
DigestMatches(f, a) ==
    IF is_archive(a)
    THEN a.checksum = { << << "f" >>, hash(f[n].data) >> : n \in FilesUnder(f, path(a.path)) }
    ELSE /\ f[path(a.path)].kind = "file"
         /\ a.checksum = { << << >>, hash(f[path(a.path)].data) >> }

\* C30: validate(a, p) is true exactly when p exists, its size equals a.size and its
\* digest equals a.checksum; a size one more or one fewer than a.size fails; the
\* validators are called in the order existence, size, checksum, and none is called
\* after one that failed.
C30_ValidateInOrder ==
    pc = "validated" =>
        LET a == todo[1]
            exists == fs[path(a.path)].kind # "absent"
            sized == MeasuredSize(fs, a) = a.size
        IN /\ result[1] <=> (exists /\ sized /\ DigestMatches(fs, a))
           /\ (exists /\ MeasuredSize(fs, a) \in { a.size - 1, a.size + 1 }) => ~result[1]
           /\ outcome = IF ~exists THEN << "existence" >>
                        ELSE IF ~sized THEN << "existence", "size" >>
                        ELSE << "existence", "size", "checksum" >>

\* C30 witness: the file is there with the declared digest input but one byte fewer
\* than declared, and validate returned false without calling the checksum validator
C30_Witness ==
    /\ pc = "validated" /\ ~is_archive(todo[1])
    /\ fs[path(cur)].kind = "file"
    /\ Size(fs[path(cur)].data) = todo[1].size - 1
    /\ DigestMatches(fs, todo[1])
    /\ result = << FALSE >> /\ outcome = << "existence", "size" >>

\* the managed paths of the sweep for descriptor d: the vector artifact_paths
ManagedPaths(d) == Range(artifact_paths(d))

\* C31 (as claimed): in the sweep an entry that equals a managed path is kept
\* whole, with everything below it, whatever the order of the managed-path list and
\* also when another managed path lies strictly below it.
C31_Original ==
    pc = "swept" =>
        \A m \in ManagedPaths(Descriptors[desc]) :
            \A n \in Nodes : starts_with(n, m) => fs[n] = pre[n]

\* the entries get_paths_to_delete listed: the top-most entries the sweep removed
Listed == { n \in Nodes : Exists(pre, n) /\ ~Exists(fs, n) /\ Exists(fs, Parent(n)) }

\* the orphans of a root for descriptor d: entries that are not a managed path, not
\* a directory above one and not below one
Orphans(f, d) ==
    { n \in Nodes : /\ Exists(f, n)
                    /\ \A m \in ManagedPaths(d) : ~starts_with(m, n) /\ ~starts_with(n, m) }

\* C32 (as claimed): get_paths_to_delete lists exactly the top-most orphans: no
\* managed path and no directory above one, an orphan directory without its
\* descendants, an orphan beside a managed path without their parent, and nothing
\* for a managed path that does not exist.
C32_Original ==
    pc = "swept" =>
        Listed = { n \in Orphans(pre, Descriptors[desc]) :
                       Parent(n) \notin Orphans(pre, Descriptors[desc]) }

\* what C32 says case by case, and the whole of it for descriptors in which no
\* managed path lies below another
C32_Cases ==
    pc = "swept" =>
        LET d == Descriptors[desc]
        IN /\ \A n \in Listed : \A m \in ManagedPaths(d) : ~starts_with(m, n)
           /\ \A n \in Listed : Parent(n) \notin Listed
           /\ (\A m1, m2 \in ManagedPaths(d) : starts_with(m1, m2) => m1 = m2)
                 => Listed = { n \in Orphans(pre, d) : Parent(n) \notin Orphans(pre, d) }

\* the index of the first occurrence of pat in s at or after i; 0 when there is none
RECURSIVE FirstOccurrence(_, _, _)
FirstOccurrence(s, pat, i) ==
    IF i + Len(pat) - 1 > Len(s) THEN 0
    ELSE IF SubSeq(s, i, i + Len(pat) - 1) = pat THEN i
    ELSE FirstOccurrence(s, pat, i + 1)

\* s without the first occurrence of pat
WithoutFirst(s, pat) ==
    LET k == FirstOccurrence(s, pat, 1)
    IN IF k = 0 THEN s ELSE SubSeq(s, 1, k - 1) \o SubSeq(s, k + Len(pat), Len(s))

\* s without the first occurrence of pat, without the first occurrence in what
\* follows that one, and so on to the end of s
RECURSIVE WithoutEvery(_, _)
WithoutEvery(s, pat) ==
    LET k == FirstOccurrence(s, pat, 1)
    IN IF k = 0 THEN s
       ELSE SubSeq(s, 1, k - 1) \o WithoutEvery(SubSeq(s, k + Len(pat), Len(s)), pat)

\* C33 (as claimed): verify checks the signature against the descriptor text without
\* the first occurrence of the signature string; later occurrences stay part of the
\* verified content.
C33_Original ==
    pc = "verified" =>
        /\ result = WithoutFirst(pin.text, pin.signature)
        /\ pout = "Ok" <=> WithoutFirst(pin.text, pin.signature) = pin.signed

\* what verify does instead: the signature is checked against the descriptor text
\* without every occurrence of the signature string (found from left to right, one
\* not overlapping the one before); only a text with at most one occurrence is
\* verified as C33 says
C33_RemovesEveryOccurrence ==
    pc = "verified" =>
        /\ result = WithoutEvery(pin.text, pin.signature)
        /\ pout = "Ok" <=> WithoutEvery(pin.text, pin.signature) = pin.signed
        /\ FirstOccurrence(WithoutFirst(pin.text, pin.signature), pin.signature, 1) = 0
              => result = WithoutFirst(pin.text, pin.signature)

\* the number of messages m in the queue q
RECURSIVE Count(_, _)
Count(q, m) == IF q = << >> THEN 0 ELSE (IF Head(q) = m THEN 1 ELSE 0) + Count(Tail(q), m)

\* C34: download_and_store processes the artifacts in declared order; after a
\* failing artifact no later one is touched and FilesReady is not sent; FilesReady is
\* sent exactly once, as the last message and after the last artifact, exactly when
\* download_and_store returns Ok.
C34_DeclaredOrderAndDone ==
    /\ result = [k \in 1..Len(result) |-> k]
    /\ Len(result) <= Len(dl.sizes)
    /\ pc \in { "batch", "batch failed" } =>
          /\ Count(chan, "FilesReady") = 0
          /\ Len(result) \in { dl.i - 1, dl.i }
    /\ (pc = "batch failed") = (err # "none")
    /\ pc = "batch done" =>
          /\ err = "none"
          /\ Count(chan, "FilesReady") = 1 /\ chan[Len(chan)] = "FilesReady"
          /\ Len(result) = Len(dl.sizes)

\* C34 witness: the first of two artifacts failed after part of its transfer; the second
\* was not touched and FilesReady was not sent
C34_Witness ==
    /\ pc = "batch failed" /\ Len(dl.sizes) = 2
    /\ result = << 1 >> /\ dl.file > 0
    /\ chan = << "Downloading" >>

\* C36 (as claimed): a batch sends at most one Downloading message, at the first
\* set_download_progress of the batch, with which the counter leaves NOT_INITIALIZED;
\* later updates only change the counter, and a batch without artifacts sends none.
C36_Original ==
    /\ Count(chan, "Downloading") <= 1
    /\ dl.sizes = << >> => Count(chan, "Downloading") = 0
    /\ (pc = "batch" /\ Count(chan, "Downloading") = 1) => dl.counter # NOT_INITIALIZED

\* C35 (as claimed): when the transfer or the unpacking of an archive artifact fails,
\* download_and_store returns an error and no partially written directory is left at
\* path(rel); the trash mirror holds what it held.
C35_Original ==
    [][(pc = "DlTransfer" /\ pc' = "Fatal" /\ is_archive(Head(todo))) =>
          /\ err' \in { "DownloadError", "StorageError" }
          /\ ~Exists(fs', path(cur))
          /\ Tree(fs', backup_path(cur)) = Tree(fs, backup_path(cur))]_vars

\* the worker has not yet returned from the download_and_store of the artifacts
BeforeArtifactsDone ==
    pc \in { "Prepare", "SplashFiles", "SplashDownload", "ShowSplash", "Files", "Download" }

\* C37: the Downloading and FilesReady of the splash batch are sent before
\* SplashReady and taken off the channel by await_splash, which stays as it is; the
\* splash loop is left only on the FilesReady of the artifacts batch, on a
\* disconnect, or (with the process) on an Error.
C37_SplashBatchIgnored ==
    /\ []((ui = "splash" /\ BeforeArtifactsDone) => Count(chan, "FilesReady") = 0)
    /\ [](ui = "splash" => (Count(chan, "SplashReady") = 0 /\ Count(chan, "FilesReady") <= 1))
    /\ [][/\ (ui = "await_splash" /\ ui' # ui) =>
               /\ \/ (chan # << >> /\ Head(chan) \in { "SplashReady", "Error" })
                  \/ (chan = << >> /\ senders = {})
               /\ \A i \in DOMAIN chan' : chan'[i] \in { "Downloading", "FilesReady" }
                      => ~BeforeArtifactsDone
          /\ (ui = "splash" /\ ui' # ui) =>
               \/ /\ ui' = "await_termination" /\ chan # << >> /\ Head(chan) = "FilesReady"
                  /\ ~BeforeArtifactsDone
               \/ (ui' = "await_termination" /\ chan = << >> /\ senders = {})
               \/ (ui' = "exit 1" /\ chan # << >> /\ Head(chan) = "Error")]_vars

\* C37 witness: the main thread has left the splash loop on the FilesReady of the
\* artifacts batch; the messages of the splash batch were taken by await_splash
C37_Witness ==
    /\ ui = "await_termination" /\ pc = "Sweep" /\ chan = << >> /\ senders = { "worker" }

\* C38: whether ApplicationUiVisible is sent before ApplicationTerminated, after it
\* or never, once the runtime's main has returned the await_termination loop ends and
\* the process exits with code 0; the splash window is closed at most once.
C38_TerminatesAfterMain ==
    /\ [](closes <= 1)
    /\ [](pc \in { "Unlock", "Done" } => ui # "exit 1")
    /\ (pc \in { "Unlock", "Done" }) ~> (ui = "exit 0")

\* C38 witness: the process has exited with code 0 while the await-UI thread has
\* still not signalled, and the window was closed when await_termination returned
C38_Witness ==
    /\ ui = "exit 0" /\ pc = "Done" /\ senders = { "probe" } /\ closes = 1

\* C39 (as claimed): whenever the splash loop loads the counter to render
\* ${progress}, the value is in 0..MAX_DOWNLOAD_PROGRESS, in every interleaving with
\* the worker, the reset by download_done included.
C39_Original ==
    old # << >> => old[1] \in 0..MAX_DOWNLOAD_PROGRESS

\* C39, for the reset alone: the loop does not load the counter after download_done
\* has put NOT_INITIALIZED into it
C39_NotAfterReset ==
    [][(ui \in { "render", "last render" } /\ ctx = "some" /\ ui' # ui) => pc # "batch done"]_vars

\* the run has passed its sweep without error
PassedSweep ==
    pc \in { "Lock", "LaunchRuntime", "Running", "Unlock", "Done" }
        \/ (pc \in { "Check", "Rt" } /\ ctx = "verify")

\* the run before this one returned Ok, and with it passed its sweep
AfterCompleteRun == outcome # << >> /\ outcome[Len(outcome)] = "Done"

\* C40: when a run has passed the sweep without error nothing remains under
\* .launcher.backup, the trash copies store_descriptor and download_and_store made in
\* the run included; the restore_trash calls of the verify step and those of the next
\* run change nothing.
C40_TrashGoneAfterSweep ==
    /\ [](PassedSweep =>
            /\ \A n \in Nodes : starts_with(n, << BACKUP_DIR >>) => ~Exists(fs, n)
            /\ \A P \in DOMAIN old : ~Exists(fs, backup_path(P)))
    /\ [][(pc = "Rt" /\ (ctx = "verify" \/ AfterCompleteRun)) => fs' = fs]_vars

\* C40 witness: the verify step of a run that replaced app.json and an artifact is at
\* a restore_trash, and the trash the sweep found is gone
C40_Witness ==
    /\ pc = "Rt" /\ ctx = "verify"
    /\ APP \in DOMAIN old /\ << "lib", "a.jar" >> \in DOMAIN old
    /\ Exists(pre, backup_path(APP)) /\ Exists(pre, backup_path(<< "lib", "a.jar" >>))
    /\ ~Exists(fs, << BACKUP_DIR >>)

=============================================================================
